---- MODULE Spec2Model ----
(***************************************************************************)
(* The interaction core of FigViewer's PlotItem: the hover / click / key   *)
(* dispatchers of plot_item.py, the nearest-point and nearest-curve        *)
(* queries, and the hint / mark state machines of mark_spot.py and         *)
(* mark_curve.py.                                                          *)
(*                                                                         *)
(* Coordinates are integers.  The view-to-scene mapping of the ViewBox is  *)
(* the anisotropic scaling Scale; a pixel distance sqrt(q) is compared     *)
(* with a threshold t >= 0 as q < t*t, and the running minimum of the      *)
(* threshold < 0 branch is kept as a squared distance (Inf for +inf).      *)
(***************************************************************************)
EXTENDS Integers, Sequences, FiniteSets, TLC

VARIABLES
    mouse_mode,                 \* PlotItem.mouse_mode
    hint_spot,                  \* PlotItem._hint_spot: [data_point, scatter_item]
    mark_spots,                 \* PlotItem._mark_spots: [mark_spots, in_focus_mark_spot]
    hint_curve,                 \* PlotItem._hint_curve: [plot_data_item, scatter_items]
    mark_curves,                \* PlotItem._mark_curves.mark_curves (its keys)
    mark_curve_items,           \* MarkCurve objects MarkCurves has on the drawing surface
    mark_curves_hint_curve,     \* PlotItem._mark_curves._hint_curve, as hint_curve
    dataItems,                  \* pg.PlotItem.dataItems, as listDataItems() returns it
    scatter_data,               \* the one sample held by each ScatterPlotItem
    series_data,                \* the rows getData() gives for each series of the user
    _kd_tree,                   \* PlotItem._kd_tree: the rows each KDTree was built on
    _seg_vec,                   \* PlotItem._seg_vec: the rows each entry was computed from
    MarkCurves_seg_vec,         \* MarkCurves._seg_vec, the table of its own copy
    key_filter,                 \* KeyFilter: [_key_timers]
    plot_core,                  \* PlotCore: the subplot selected, its layout and dicts
    figplot,                    \* FigPlot: [_app, _windows] and the windows and loops
    mouse_hover_lock,           \* PlotItem._mouse_hover_lock
    mouse_double_click_lock,    \* PlotItem._mouse_double_click_lock
    hover_timers,               \* pending QTimer.singleShot(25, ...) callbacks
    click_timers,               \* pending QTimer.singleShot(doubleClickInterval, ...)
    raised,                     \* exception that left the last handler, or "none"
    last                        \* the last event delivered

vars == <<mouse_mode, hint_spot, mark_spots, hint_curve, mark_curves, mark_curve_items,
          mark_curves_hint_curve, dataItems, scatter_data, series_data, _kd_tree, _seg_vec,
          MarkCurves_seg_vec, key_filter, plot_core, figplot, mouse_hover_lock, mouse_double_click_lock, hover_timers,
          click_timers, raised, last>>

----------------------------------------------------------------------------
(* Bounds of the model *)

\* most MarkSpot objects held at once
MaxMarks == 2

\* most PlotItem objects a PlotCore refers to at once
MaxPlotItems == 2

\* most series plotted on one PlotItem
MaxSeries == 2

\* the integer titles of figures run from 0 to MaxFigures
MaxFigures == 2

----------------------------------------------------------------------------
(* Items, series data and DataPoints *)

Modes == {"pan", "zoom", "select", "grab"}

Series(n) == [kind |-> "series", id |-> n]
Scatter(n) == [kind |-> "scatter", id |-> n]
NoItem == [kind |-> "none", id |-> 0]

\* the k-th ScatterPlotItem of the HintCurve of owner self, made for the sample
\* coords: a HintCurve holds at most one item for each k at a time
CurveMarker(self, k, coords) == [kind |-> "marker", id |-> << self, k, coords >>]

\* the (x, y) samples of the two series the user plotted
UserData ==
    << << <<0, 0>>, <<2, 1>>, <<4, 1>> >>,
       << <<6, 0>> >> >>

UserSeries == {Series(n) : n \in 1..Len(UserData)}

\* scene pixels per data unit along x and y (ViewBox.mapViewToScene)
Scale == <<5, 30>>

\* pointer positions, in view coordinates: the samples of the series and a
\* point more than the threshold away from every sample
Positions == {<<0, 0>>, <<2, 1>>, <<4, 1>>, <<6, 0>>, <<2, 3>>}

\* and a point within the threshold of the sample <<0, 0>> alone, whose nearest
\* sample in data space, <<2, 1>>, is beyond the threshold in pixels: there the
\* query passes over both series and comes to the items after them in
\* listDataItems()
NearPositions == Positions \cup {<<2, 0>>}

ScatterIds == 1..(MaxMarks + 1)

\* the dict of an index before any query: no entry for any series (an entry
\* is the rows it was built on, never empty)
NoIndex == [n \in 1..Len(UserData) |-> << >>]

DataPoint(item, idx, len) == [plot_data_item |-> item, data_index |-> idx, length |-> len]
NoDataPoint == DataPoint(NoItem, 0, 0)

\* the DataPoints of the samples of the user's series
UserDataPoints ==
    UNION {{DataPoint(Series(n), idx, Len(UserData[n])) : idx \in 0..(Len(UserData[n]) - 1)} :
              n \in 1..Len(UserData)}

\* getData() of a series without data is (None, None): no rows
NoData == << >>

\* item.getData(), stacked by np.column_stack: the sequence of (x, y) rows
getData(item) ==
    IF item.kind = "series" THEN series_data[item.id]
    ELSE IF item.kind = "marker" THEN << item.id[3] >>
    ELSE << scatter_data[item.id] >>

\* pts[idx] with a 0-based index
Row(pts, idx) == pts[idx + 1]

----------------------------------------------------------------------------
(* Geometry: PlotItem._find_nearest_data_point and _find_nearest_curve *)

\* float('inf') as the running minimum
Inf == << -1, 1 >>

SqDist(a, b) == (a[1] - b[1]) * (a[1] - b[1]) + (a[2] - b[2]) * (a[2] - b[2])

mapViewToScene(p) == << Scale[1] * p[1], Scale[2] * p[2] >>

\* a distance is the fraction d[1] / d[2] of a squared length, d[2] > 0
RatLess(a, b) == a[1] * b[2] < b[1] * a[2]

\* square_pixel_dist < min_dist
LessThanMin(d, min_dist) == min_dist = Inf \/ RatLess(d, min_dist)

\* square_pixel_dist <= pixel_dist_threshold
LessThanThreshold_inclusive(d, thr) == thr > 0 /\ d[1] <= thr * thr * d[2]

\* square_pixel_dist < pixel_dist_threshold
LessThanThreshold(d, thr) == thr > 0 /\ d[1] < thr * thr * d[2]

\* KDTree(pts).query(pos, k=1, p=2): an index of a sample nearest in data
\* space; which one among equidistant samples is left to the library
KDTreeQuery(pts, pos) ==
    {i \in 0..(Len(pts) - 1) :
        \A j \in 0..(Len(pts) - 1) : SqDist(Row(pts, i), pos) <= SqDist(Row(pts, j), pos)}

\* the for loop of _find_nearest_data_point from the k-th item on: the set of
\* values it can return
RECURSIVE FindPointLoop(_, _, _, _, _, _)
FindPointLoop(items, k, coord_pos, thr, min_dist, min_data_point) ==
    IF k > Len(items) THEN {min_data_point}
    ELSE LET plot_data_item == items[k]
             pts == getData(plot_data_item)
         IN IF pts = NoData
              THEN FindPointLoop(items, k + 1, coord_pos, thr, min_dist, min_data_point)
            ELSE UNION {
              LET d == << SqDist(mapViewToScene(Row(pts, idx)), mapViewToScene(coord_pos)), 1 >>
                  dp == DataPoint(plot_data_item, idx, Len(pts))
              IN IF thr < 0 /\ LessThanMin(d, min_dist)
                   THEN FindPointLoop(items, k + 1, coord_pos, thr, d, dp)
                 ELSE IF LessThanThreshold(d, thr)
                   THEN {dp}
                 ELSE FindPointLoop(items, k + 1, coord_pos, thr, min_dist, min_data_point)
              : idx \in KDTreeQuery(pts, coord_pos) }

_find_nearest_data_point(coord_pos, specified_plot_data_item, pixel_dist_threshold) ==
    LET search_plot_data_items ==
            IF specified_plot_data_item # NoItem
              THEN << specified_plot_data_item >> ELSE dataItems
    IN FindPointLoop(search_plot_data_items, 1, coord_pos, pixel_dist_threshold,
                     Inf, NoDataPoint)

\* _precompute_polyline: one record per segment, or the single sample
_precompute_polyline(data_points) ==
    IF Len(data_points) = 1
      THEN [is_single_point |-> TRUE, point |-> data_points[1], segments |-> << >>]
      ELSE [is_single_point |-> FALSE, point |-> << 0, 0 >>,
            segments |->
              [i \in 1..(Len(data_points) - 1) |->
                 LET start == data_points[i]
                     vec == << data_points[i + 1][1] - start[1],
                               data_points[i + 1][2] - start[2] >>
                     len_sq == vec[1] * vec[1] + vec[2] * vec[2]
                 IN [start |-> start, vec |-> vec,
                     len_sq |-> IF len_sq = 0 THEN 1 ELSE len_sq]]]

\* the projection without np.clip
Project_unclamped(seg, qp) ==
    LET num == (qp[1] - seg.start[1]) * seg.vec[1] + (qp[2] - seg.start[2]) * seg.vec[2]
    IN [x |-> seg.start[1] * seg.len_sq + num * seg.vec[1],
        y |-> seg.start[2] * seg.len_sq + num * seg.vec[2],
        den |-> seg.len_sq]

\* start + clip(t, 0, 1) * vec for one segment, as the point (x / den, y / den)
Project(seg, qp) ==
    LET num == (qp[1] - seg.start[1]) * seg.vec[1] + (qp[2] - seg.start[2]) * seg.vec[2]
    IN IF num <= 0 THEN [x |-> seg.start[1], y |-> seg.start[2], den |-> 1]
       ELSE IF num >= seg.len_sq
         THEN [x |-> seg.start[1] + seg.vec[1], y |-> seg.start[2] + seg.vec[2], den |-> 1]
       ELSE [x |-> seg.start[1] * seg.len_sq + num * seg.vec[1],
             y |-> seg.start[2] * seg.len_sq + num * seg.vec[2],
             den |-> seg.len_sq]

\* squared distance from the point p to qp under the scaling sc
RatSqDist(p, qp, sc) ==
    << sc[1] * sc[1] * (p.x - qp[1] * p.den) * (p.x - qp[1] * p.den)
       + sc[2] * sc[2] * (p.y - qp[2] * p.den) * (p.y - qp[2] * p.den),
       p.den * p.den >>

\* _query_nearest_point: p[np.argmin(d2)], the first segment of least distance
_query_nearest_point(precomputed_data, query_point) ==
    IF precomputed_data.is_single_point
      THEN [x |-> precomputed_data.point[1], y |-> precomputed_data.point[2], den |-> 1]
      ELSE LET segs == precomputed_data.segments
               p(i) == Project(segs[i], query_point)
               d2(i) == RatSqDist(p(i), query_point, << 1, 1 >>)
               best == CHOOSE i \in 1..Len(segs) :
                          /\ \A j \in 1..Len(segs) : ~RatLess(d2(j), d2(i))
                          /\ \A j \in 1..(i - 1) : RatLess(d2(i), d2(j))
           IN p(best)

\* the for loop of _find_nearest_curve from the k-th item on
RECURSIVE FindCurveLoop(_, _, _, _, _, _)
FindCurveLoop(items, k, coord_pos, thr, min_dist, min_plot_data_item) ==
    IF k > Len(items) THEN min_plot_data_item
    ELSE LET plot_data_item == items[k]
             closest_point == _query_nearest_point(
                                  _precompute_polyline(getData(plot_data_item)), coord_pos)
             d == RatSqDist(closest_point, coord_pos, Scale)
         IN IF getData(plot_data_item) = NoData
              THEN FindCurveLoop(items, k + 1, coord_pos, thr, min_dist, min_plot_data_item)
            ELSE IF thr < 0 /\ LessThanMin(d, min_dist)
              THEN FindCurveLoop(items, k + 1, coord_pos, thr, d, plot_data_item)
            ELSE IF LessThanThreshold(d, thr)
              THEN plot_data_item
            ELSE FindCurveLoop(items, k + 1, coord_pos, thr, min_dist, min_plot_data_item)

_find_nearest_curve(coord_pos, pixel_dist_threshold) ==
    FindCurveLoop(dataItems, 1, coord_pos, pixel_dist_threshold, Inf, NoItem)

----------------------------------------------------------------------------
(* HintSpot (mark_spot.py) *)

\* list.remove / PlotItem.removeItem: drop the first occurrence of x
RECURSIVE RemoveFirst(_, _)
RemoveFirst(seq, x) ==
    IF seq = << >> THEN << >>
    ELSE IF Head(seq) = x THEN Tail(seq)
    ELSE << Head(seq) >> \o RemoveFirst(Tail(seq), x)

\* the MarkSpot objects of a MarkSpots value ms = [mark_spots, in_focus_mark_spot]
Marks(ms) == {ms.mark_spots[i] : i \in 1..Len(ms.mark_spots)}

\* ScatterPlotItem objects some mark or the hint still refers to
ScatterInUse(hs, ms) ==
    {m.data_point.plot_data_item.id :
        m \in {k \in Marks(ms) : k.data_point.plot_data_item.kind = "scatter"}}
    \cup (IF hs.scatter_item # 0 THEN {hs.scatter_item} ELSE {})

\* ScatterPlotItem identities are kept up to renaming: after a handler the
\* objects still referred to are numbered in the order in which the marks and
\* then the hint refer to them.  Only the item of the hint is ever read again
\* by a query, so scatter_data keeps the sample of that item alone.
ScatterRefs(hs, ms) ==
    [i \in 1..Len(ms.mark_spots) |->
        IF ms.mark_spots[i].data_point.plot_data_item.kind = "scatter"
          THEN ms.mark_spots[i].data_point.plot_data_item.id ELSE 0]
    \o << hs.scatter_item >>

\* the new number of each ScatterPlotItem in use (0 for the others)
Renaming(hs, ms) ==
    LET refs == ScatterRefs(hs, ms)
        first == [n \in ScatterIds |->
                    IF \E i \in 1..Len(refs) : refs[i] = n
                      THEN CHOOSE i \in 1..Len(refs) :
                              refs[i] = n /\ \A j \in 1..(i - 1) : refs[j] # n
                      ELSE 0]
    IN [n \in ScatterIds |->
          IF first[n] = 0 THEN 0
          ELSE Cardinality({k \in ScatterIds : first[k] # 0 /\ first[k] <= first[n]})]

RenameItem(ren, item) ==
    IF item.kind = "scatter" /\ ren[item.id] # 0 THEN Scatter(ren[item.id]) ELSE item

NoScatterData == [n \in ScatterIds |-> << 0, 0 >>]

Renamed(e) ==
    IF e.hint_spot.scatter_item \in {0, 1}
       /\ \A i \in 1..Len(e.mark_spots.mark_spots) :
              e.mark_spots.mark_spots[i].data_point.plot_data_item.kind # "scatter"
      THEN \* the item of the hint is the only one in use and is number 1 already
           [e EXCEPT !.scatter_data =
              IF e.hint_spot.scatter_item = 0 THEN NoScatterData
              ELSE [NoScatterData EXCEPT ![1] = e.scatter_data[1]]]
      ELSE LET hs == e.hint_spot
               ms == e.mark_spots
               ren == Renaming(hs, ms)
           IN [e EXCEPT
                 !.hint_spot =
                     [data_point |-> [hs.data_point EXCEPT !.plot_data_item =
                                         RenameItem(ren, hs.data_point.plot_data_item)],
                      scatter_item |-> IF hs.scatter_item = 0 THEN 0
                                       ELSE ren[hs.scatter_item]],
                 !.mark_spots =
                     [ms EXCEPT !.mark_spots =
                        [i \in 1..Len(ms.mark_spots) |->
                           [ms.mark_spots[i] EXCEPT !.data_point.plot_data_item =
                               RenameItem(ren, ms.mark_spots[i].data_point.plot_data_item)]]],
                 !.dataItems = [i \in 1..Len(e.dataItems) |-> RenameItem(ren, e.dataItems[i])],
                 !.scatter_data =
                     IF hs.scatter_item = 0 THEN NoScatterData
                     ELSE [NoScatterData EXCEPT ![ren[hs.scatter_item]] =
                              e.scatter_data[hs.scatter_item]]]

\* the identity of a newly constructed pg.ScatterPlotItem
NewScatter ==
    CHOOSE n \in ScatterIds \ ScatterInUse(hint_spot, mark_spots) :
        \A k \in ScatterIds \ ScatterInUse(hint_spot, mark_spots) : n <= k

\* the effect of a HintSpot method on the hint and on the drawing surface
HintEffect(hs, items, sdata) ==
    [hint_spot |-> hs, dataItems |-> items, scatter_data |-> sdata]

\* clear_hint_spot without the call of removeItem
clear_hint_spot_unremoved ==
    HintEffect([data_point |-> NoDataPoint, scatter_item |-> 0], dataItems, scatter_data)

clear_hint_spot ==
    HintEffect([data_point |-> NoDataPoint, scatter_item |-> 0],
               IF hint_spot.scatter_item # 0
                 THEN RemoveFirst(dataItems, Scatter(hint_spot.scatter_item))
                 ELSE dataItems,
               scatter_data)

\* update_hint_spot taking the existing marker off the surface and putting a
\* newly constructed one there for every new DataPoint
update_hint_spot_recreated(data_point) ==
    IF data_point = NoDataPoint THEN clear_hint_spot
    ELSE IF hint_spot.data_point = data_point
      THEN HintEffect(hint_spot, dataItems, scatter_data)
    ELSE LET coords == Row(getData(data_point.plot_data_item), data_point.data_index)
         IN HintEffect([data_point |-> data_point, scatter_item |-> NewScatter],
                       Append(clear_hint_spot.dataItems, Scatter(NewScatter)),
                       [scatter_data EXCEPT ![NewScatter] = coords])

update_hint_spot(data_point) ==
    IF data_point = NoDataPoint THEN clear_hint_spot
    ELSE IF hint_spot.data_point = data_point
      THEN HintEffect(hint_spot, dataItems, scatter_data)
    ELSE LET coords == Row(getData(data_point.plot_data_item), data_point.data_index)
         IN IF hint_spot.scatter_item = 0
              THEN HintEffect([data_point |-> data_point, scatter_item |-> NewScatter],
                              Append(dataItems, Scatter(NewScatter)),
                              [scatter_data EXCEPT ![NewScatter] = coords])
              ELSE HintEffect([hint_spot EXCEPT !.data_point = data_point],
                              dataItems,
                              [scatter_data EXCEPT ![hint_spot.scatter_item] = coords])

----------------------------------------------------------------------------
(* MarkSpots (mark_spot.py): ms is [mark_spots, in_focus_mark_spot, items]. *)
(* A MarkSpot object is known by its place in the list mark_spots, and      *)
(* in_focus_mark_spot is the place of the mark in focus, 0 standing for     *)
(* None.  items is the number of MarkSpot objects the collection has on the *)
(* drawing surface: its calls of addItem less its calls of removeItem.      *)

\* the lookup giving the first mark whatever it is bound to
_find_mark_spot_by_data_point_any(ms, data_point) ==
    IF ms.mark_spots # << >> THEN 1 ELSE 0

\* the place of the first mark with an equal data_point, 0 for None
_find_mark_spot_by_data_point(ms, data_point) ==
    IF \E i \in 1..Len(ms.mark_spots) : ms.mark_spots[i].data_point = data_point
      THEN CHOOSE i \in 1..Len(ms.mark_spots) :
              /\ ms.mark_spots[i].data_point = data_point
              /\ \A j \in 1..(i - 1) : ms.mark_spots[j].data_point # data_point
      ELSE 0

\* update_mark_spot appending a mark whether or not one is found
update_mark_spot_duplicated(ms, data_point) ==
    IF data_point = NoDataPoint THEN ms
    ELSE [mark_spots |-> Append(ms.mark_spots, [data_point |-> data_point]),
          in_focus_mark_spot |-> Len(ms.mark_spots) + 1,
          items |-> ms.items + 1]

update_mark_spot(ms, data_point) ==
    IF data_point = NoDataPoint THEN ms
    ELSE LET found == _find_mark_spot_by_data_point(ms, data_point)
         IN IF found # 0 THEN [ms EXCEPT !.in_focus_mark_spot = found]
            ELSE [mark_spots |-> Append(ms.mark_spots, [data_point |-> data_point]),
                  in_focus_mark_spot |-> Len(ms.mark_spots) + 1,
                  items |-> ms.items + 1]

\* discard_mark_spot leaving in_focus_mark_spot as it is
discard_mark_spot_focused(ms, data_point) ==
    IF data_point = NoDataPoint THEN ms
    ELSE LET found == _find_mark_spot_by_data_point(ms, data_point)
         IN IF found # 0
              THEN [mark_spots |-> SubSeq(ms.mark_spots, 1, found - 1)
                                   \o SubSeq(ms.mark_spots, found + 1, Len(ms.mark_spots)),
                    in_focus_mark_spot |-> ms.in_focus_mark_spot,
                    items |-> ms.items - 1]
              ELSE ms

discard_mark_spot(ms, data_point) ==
    IF data_point = NoDataPoint THEN ms
    ELSE LET found == _find_mark_spot_by_data_point(ms, data_point)
         IN IF found # 0
              THEN [mark_spots |-> SubSeq(ms.mark_spots, 1, found - 1)
                                   \o SubSeq(ms.mark_spots, found + 1, Len(ms.mark_spots)),
                    in_focus_mark_spot |-> 0,
                    items |-> ms.items - 1]
              ELSE ms

\* clear_mark_spot leaving the marks in place
clear_mark_spot_kept(ms) == ms

clear_mark_spot(ms) ==
    [mark_spots |-> << >>, in_focus_mark_spot |-> 0, items |-> ms.items - Len(ms.mark_spots)]

\* MarkSpot.move_to_pos(data_point) on the mark at place i
move_to_pos(ms, i, data_point) ==
    [ms EXCEPT !.mark_spots[i].data_point = data_point]

\* move_mark_spot_forward without max(..., 0)
move_mark_spot_forward_unclamped(ms) ==
    IF ms.in_focus_mark_spot = 0 THEN ms
    ELSE LET data_point == ms.mark_spots[ms.in_focus_mark_spot].data_point
         IN move_to_pos(ms, ms.in_focus_mark_spot,
                        DataPoint(data_point.plot_data_item, data_point.data_index - 1,
                                  data_point.length))

move_mark_spot_forward(ms) ==
    IF ms.in_focus_mark_spot = 0 THEN ms
    ELSE LET data_point == ms.mark_spots[ms.in_focus_mark_spot].data_point
             data_index == IF data_point.data_index - 1 > 0
                             THEN data_point.data_index - 1 ELSE 0
         IN move_to_pos(ms, ms.in_focus_mark_spot,
                        DataPoint(data_point.plot_data_item, data_index, data_point.length))

\* move_mark_spot_backward without min(..., data_length - 1)
move_mark_spot_backward_unclamped(ms) ==
    IF ms.in_focus_mark_spot = 0 THEN ms
    ELSE LET data_point == ms.mark_spots[ms.in_focus_mark_spot].data_point
         IN move_to_pos(ms, ms.in_focus_mark_spot,
                        DataPoint(data_point.plot_data_item, data_point.data_index + 1,
                                  data_point.length))

move_mark_spot_backward(ms) ==
    IF ms.in_focus_mark_spot = 0 THEN ms
    ELSE LET data_point == ms.mark_spots[ms.in_focus_mark_spot].data_point
             data_index == IF data_point.data_index + 1 < data_point.length - 1
                             THEN data_point.data_index + 1 ELSE data_point.length - 1
         IN move_to_pos(ms, ms.in_focus_mark_spot,
                        DataPoint(data_point.plot_data_item, data_index, data_point.length))

\* drag_event searching every series of the plot
drag_event_unspecified(ms, i, pos) ==
    {IF new_data_point = NoDataPoint THEN ms ELSE move_to_pos(ms, i, new_data_point) :
        new_data_point \in _find_nearest_data_point(pos, NoItem, -1)}

\* MarkSpots.drag_event(mark_spot, pos) for the mark at place i: the values the
\* collection can take
drag_event(ms, i, pos) ==
    {IF new_data_point = NoDataPoint THEN ms ELSE move_to_pos(ms, i, new_data_point) :
        new_data_point \in
            _find_nearest_data_point(pos, ms.mark_spots[i].data_point.plot_data_item, -1)}

----------------------------------------------------------------------------
(* MarkCurves (mark_curve.py): mc is the set of keys of mark_curves, and n  *)
(* the number of MarkCurve objects the collection has on the drawing       *)
(* surface: its calls of addItem less its calls of removeItem               *)

add_mark_curve(mc, plot_data_item) ==
    IF plot_data_item # NoItem /\ plot_data_item \notin mc
      THEN mc \cup {plot_data_item} ELSE mc

\* the calls of addItem of add_mark_curve
add_mark_curve_items(mc, n, plot_data_item) ==
    IF plot_data_item # NoItem /\ plot_data_item \notin mc THEN n + 1 ELSE n

remove_mark_curve(mc, plot_data_item) ==
    IF plot_data_item # NoItem /\ plot_data_item \in mc
      THEN mc \ {plot_data_item} ELSE mc

\* the calls of removeItem of remove_mark_curve
remove_mark_curve_items(mc, n, plot_data_item) ==
    IF plot_data_item # NoItem /\ plot_data_item \in mc THEN n - 1 ELSE n

\* clear_mark_curve that takes no MarkCurve off the surface
clear_mark_curve_items_kept(mc, n) == n

\* the calls of removeItem of clear_mark_curve: one for every value of the dict
clear_mark_curve_items(mc, n) == n - Cardinality(mc)

\* clear_mark_curve that leaves the dict as it is
clear_mark_curve_kept(mc) == mc

clear_mark_curve(mc) == {}

\* update_mark_curve, discard_mark_curve and toggle_mark_curve read the series
\* held by the HintCurve hc of the MarkCurves object
update_mark_curve(mc, hc) == add_mark_curve(mc, hc.plot_data_item)

discard_mark_curve(mc, hc) == remove_mark_curve(mc, hc.plot_data_item)

\* toggle_mark_curve adding the mark whether or not the series has one
toggle_mark_curve_added(mc, hc) ==
    IF hc.plot_data_item = NoItem THEN mc
    ELSE add_mark_curve(mc, hc.plot_data_item)

toggle_mark_curve(mc, hc) ==
    IF hc.plot_data_item = NoItem THEN mc
    ELSE IF hc.plot_data_item \notin mc
      THEN add_mark_curve(mc, hc.plot_data_item)
    ELSE remove_mark_curve(mc, hc.plot_data_item)

\* the calls of addItem and removeItem of toggle_mark_curve
toggle_mark_curve_items(mc, n, hc) ==
    IF hc.plot_data_item = NoItem THEN n
    ELSE IF hc.plot_data_item \notin mc
      THEN add_mark_curve_items(mc, n, hc.plot_data_item)
    ELSE remove_mark_curve_items(mc, n, hc.plot_data_item)

\* MarkCurves.find_nearest_curve, the same loop over listDataItems()
find_nearest_curve(coord_pos, pixel_dist_threshold) ==
    FindCurveLoop(dataItems, 1, coord_pos, pixel_dist_threshold, Inf, NoItem)

----------------------------------------------------------------------------
(* HintCurve (mark_curve.py): hc is [plot_data_item, scatter_items], self   *)
(* the object that owns it, items the list of the drawing surface           *)

\* num of np.linspace(0, pts.shape[0] - 1, 2, dtype=int)
HintCurveMarkers == 2

NoHintCurve == [plot_data_item |-> NoItem, scatter_items |-> << >>]

\* what a HintCurve method leaves of the HintCurve and of the drawing surface
HintCurveEffect(hc, items) == [hint_curve |-> hc, dataItems |-> items]

\* removeItem for every item of scatter_items, in order
RECURSIVE RemoveEach(_, _)
RemoveEach(items, scatter_items) ==
    IF scatter_items = << >> THEN items
    ELSE RemoveEach(RemoveFirst(items, Head(scatter_items)), Tail(scatter_items))

\* clear() without the calls of removeItem
HintCurve_clear_unremoved(hc, items) == HintCurveEffect(NoHintCurve, items)

\* HintCurve.clear()
HintCurve_clear(hc, items) ==
    HintCurveEffect(NoHintCurve, RemoveEach(items, hc.scatter_items))

\* np.linspace(0, n - 1, 2, dtype=int): the first and the last index
linspace(n) == [k \in 1..HintCurveMarkers |-> IF k = 1 THEN 0 ELSE n - 1]

\* HintCurve.update without the call of clear() before the new series is
\* stored
HintCurve_update_uncleared(self, hc, items, plot_data_item) ==
    IF plot_data_item = NoItem THEN HintCurve_clear(hc, items)
    ELSE IF hc.plot_data_item = plot_data_item THEN HintCurveEffect(hc, items)
    ELSE LET pts == getData(plot_data_item)
             scatter_items == [k \in 1..HintCurveMarkers |->
                                  CurveMarker(self, k, Row(pts, linspace(Len(pts))[k]))]
         IN HintCurveEffect([plot_data_item |-> plot_data_item,
                             scatter_items |-> hc.scatter_items \o scatter_items],
                            items \o scatter_items)

\* HintCurve.update(plot_data_item)
HintCurve_update(self, hc, items, plot_data_item) ==
    IF plot_data_item = NoItem THEN HintCurve_clear(hc, items)
    ELSE IF hc.plot_data_item = plot_data_item THEN HintCurveEffect(hc, items)
    ELSE LET cleared == HintCurve_clear(hc, items)
             pts == getData(plot_data_item)
             scatter_items == [k \in 1..HintCurveMarkers |->
                                  CurveMarker(self, k, Row(pts, linspace(Len(pts))[k]))]
         IN HintCurveEffect([plot_data_item |-> plot_data_item,
                             scatter_items |-> scatter_items],
                            cleared.dataItems \o scatter_items)

----------------------------------------------------------------------------
(* The dispatch tables of PlotItem (plot_item.py) *)

Buttons == {"left", "right"}
Modifiers == {"none", "ctrl"}
Keys == {"Key_Left", "Key_Up", "Key_Right", "Key_Down", "Key_C"}
MenuChoices == Modes \cup {"dismiss"}

\* pixel_dist_threshold of both hover queries
HoverThreshold == 20

\* move_actions with an entry for zoom as well
move_actions_with_zoom(mode) ==
    CASE mode = "pan" -> "renew_hint_spot"
      [] mode = "select" -> "renew_hint_spot"
      [] mode = "grab" -> "renew_hint_curve"
      [] OTHER -> "renew_hint_spot"

\* move_actions.get(mouse_mode, None)
move_actions(mode) ==
    CASE mode = "pan" -> "renew_hint_spot"
      [] mode = "select" -> "renew_hint_spot"
      [] mode = "grab" -> "renew_hint_curve"
      [] OTHER -> "None"

\* click_actions.get((mouse_mode, button, double, modifiers), None)
click_actions(mode, button, double, mods) ==
    CASE mode = "pan" /\ button = "left" /\ ~double /\ mods = "none" -> "renew_mark_spot"
      [] mode = "pan" /\ button = "left" /\ double /\ mods = "none" -> "discard_mark_spot"
      [] mode = "select" /\ button = "left" /\ ~double /\ mods = "none" -> "add_mark_spot"
      [] mode = "select" /\ button = "left" /\ double /\ mods = "none" -> "discard_mark_spot"
      [] mode = "grab" /\ button = "left" /\ ~double /\ mods = "none" -> "renew_selected_curve"
      [] mode = "grab" /\ button = "left" /\ ~double /\ mods = "ctrl" -> "update_selected_curve"
      [] mode = "pan" /\ button = "right" /\ ~double /\ mods = "none" -> "raise_context_menu"
      [] mode = "zoom" /\ button = "right" /\ ~double /\ mods = "none" -> "raise_context_menu"
      [] mode = "select" /\ button = "right" /\ ~double /\ mods = "none" -> "raise_context_menu"
      [] mode = "grab" /\ button = "right" /\ ~double /\ mods = "none" -> "raise_context_curve_menu"
      [] OTHER -> "None"

\* press_actions with the two directions exchanged
press_actions_exchanged(mode, key) ==
    CASE mode = "select" /\ key = "Key_Left" -> "move_mark_spot_right"
      [] mode = "select" /\ key = "Key_Up" -> "move_mark_spot_right"
      [] mode = "select" /\ key = "Key_Right" -> "move_mark_spot_left"
      [] mode = "select" /\ key = "Key_Down" -> "move_mark_spot_left"
      [] OTHER -> "None"

\* press_actions.get((mouse_mode, key), None)
press_actions(mode, key) ==
    CASE mode = "select" /\ key = "Key_Left" -> "move_mark_spot_left"
      [] mode = "select" /\ key = "Key_Up" -> "move_mark_spot_left"
      [] mode = "select" /\ key = "Key_Right" -> "move_mark_spot_right"
      [] mode = "select" /\ key = "Key_Down" -> "move_mark_spot_right"
      [] OTHER -> "None"

\* set_mouse_mode(mode), the slot of the four mode entries of the menu
set_mouse_mode(mode) == mode

\* getContextMenus: menu.exec returns after the user picked a mode entry or
\* dismissed the menu; the value is the mouse_mode it leaves
getContextMenus(choice) ==
    IF choice \in Modes THEN set_mouse_mode(choice) ELSE mouse_mode

\* what a handler leaves behind: the fields it can assign and the exception
\* that ended it
Effect(mode, hs, items, sdata, ms, hc, mc, n, exc) ==
    [mouse_mode |-> mode, hint_spot |-> hs, dataItems |-> items, scatter_data |-> sdata,
     mark_spots |-> ms, hint_curve |-> hc, mark_curves |-> mc, mark_curve_items |-> n,
     raised |-> exc]

NoEffect ==
    Effect(mouse_mode, hint_spot, dataItems, scatter_data, mark_spots, hint_curve,
           mark_curves, mark_curve_items, "none")

\* _process_key_event(key)
_process_key_event(key) ==
    LET press_action == press_actions(mouse_mode, key)
    IN IF press_action = "None" THEN NoEffect
       ELSE IF press_action = "move_mark_spot_left"
         THEN [NoEffect EXCEPT !.mark_spots = move_mark_spot_forward(mark_spots)]
       ELSE [NoEffect EXCEPT !.mark_spots = move_mark_spot_backward(mark_spots)]

\* _process_hover_event(event) once the queried candidate is known: data_point
\* for renew_hint_spot (None over a mark label).  HintCurve defines update and
\* clear only, so the call of update_hint_curve ends in an AttributeError.
_process_hover_event(data_point) ==
    LET move_action == move_actions(mouse_mode)
    IN IF move_action = "None" THEN NoEffect
       ELSE IF move_action = "renew_hint_spot"
         THEN LET r == update_hint_spot(data_point)
              IN [NoEffect EXCEPT !.hint_spot = r.hint_spot, !.dataItems = r.dataItems,
                                  !.scatter_data = r.scatter_data]
       ELSE [NoEffect EXCEPT !.raised = "AttributeError"]

\* the candidates without the test for a label under the pointer
HoverCandidates_unlabelled(pos, over_label) ==
    IF move_actions(mouse_mode) = "renew_hint_spot"
      THEN _find_nearest_data_point(pos, NoItem, HoverThreshold)
      ELSE {NoDataPoint}

\* the candidates _process_hover_event can pass to update_hint_spot
HoverCandidates(pos, over_label) ==
    IF move_actions(mouse_mode) = "renew_hint_spot" /\ ~over_label
      THEN _find_nearest_data_point(pos, NoItem, HoverThreshold)
      ELSE {NoDataPoint}

\* _process_click_event(event); choice is what the user does with the context
\* menu.  MarkCurves.toggle_mark_curve takes no argument, so the call with
\* the hinted curve ends in a TypeError.
_process_click_event(button, double, mods, choice) ==
    LET click_action == click_actions(mouse_mode, button, double, mods)
    IN CASE click_action = "renew_mark_spot" ->
              IF hint_spot.data_point # NoDataPoint
                THEN [NoEffect EXCEPT !.mark_spots =
                         update_mark_spot(clear_mark_spot(mark_spots), hint_spot.data_point)]
                ELSE NoEffect
         [] click_action = "add_mark_spot" ->
              [NoEffect EXCEPT !.mark_spots =
                  update_mark_spot(mark_spots, hint_spot.data_point)]
         [] click_action = "discard_mark_spot" ->
              [NoEffect EXCEPT !.mark_spots =
                  discard_mark_spot(mark_spots, hint_spot.data_point)]
         [] click_action = "renew_selected_curve" ->
              [NoEffect EXCEPT
                  !.mark_curves =
                     add_mark_curve(clear_mark_curve(mark_curves), hint_curve.plot_data_item),
                  !.mark_curve_items =
                     add_mark_curve_items(clear_mark_curve(mark_curves),
                                          clear_mark_curve_items(mark_curves, mark_curve_items),
                                          hint_curve.plot_data_item)]
         [] click_action = "update_selected_curve" ->
              [NoEffect EXCEPT !.raised = "TypeError"]
         [] click_action = "raise_context_menu" ->
              [NoEffect EXCEPT !.mouse_mode = getContextMenus(choice)]
         [] click_action = "raise_context_curve_menu" ->
              [NoEffect EXCEPT !.mouse_mode = getContextMenus(choice)]
         [] OTHER -> NoEffect

----------------------------------------------------------------------------
(* PlotCore: the subplots of a figure, plot_core.py *)

(* A PlotItem is known by a number, 0 standing for None.  Of the            *)
(* GraphicsLayout the PlotCore is built on, rows gives the item getItem     *)
(* finds in every cell (rows[row][col]), cells the cells addItem entered    *)
(* for every item (items[item], row by row) and layout the items the Qt     *)
(* layout holds.  _plot_item_settings gives the hold of every PlotItem      *)
(* with a SubplotSetting, and series the names of the series plotted on     *)
(* every PlotItem, in the order of listDataItems().                         *)

\* the rows and columns subplot is called with, and the spans
SubplotRows == {0, 1}
SubplotCols == {0}
RowSpans == {1, 2}
ColSpans == {1}

Cells == {<< row, col >> : row \in 0..2, col \in SubplotCols}

PlotItemIds == 1..MaxPlotItems

\* the names plot is called with
Labels == {"a", "b"}

PlotCore_init ==
    [_row |-> 0, _col |-> 0, _rowspan |-> 1, _colspan |-> 1,
     rows |-> [cell \in Cells |-> 0],
     cells |-> [item \in PlotItemIds |-> << >>],
     layout |-> {},
     _plot_items |-> [cell \in Cells |-> 0],
     _plot_item_settings |-> [item \in PlotItemIds |-> "None"],
     series |-> [item \in PlotItemIds |-> << >>]]

\* what a method leaves: the PlotCore, the value returned and the exception
\* that left the method
Returned(pc, value, exc) == [plot_core |-> pc, value |-> value, raised |-> exc]

\* the PlotItems the PlotCore or its layout still refers to
Referred(pc) ==
    {item \in PlotItemIds :
        \/ \E cell \in Cells : pc.rows[cell] = item \/ pc._plot_items[cell] = item
        \/ pc.cells[item] # << >>
        \/ item \in pc.layout
        \/ pc._plot_item_settings[item] # "None"}

\* PlotItem(title=title, **kwargs): an object none of these refers to
NewPlotItem(pc) ==
    CHOOSE item \in PlotItemIds :
       /\ item \notin Referred(pc)
       /\ \A i \in 1..(item - 1) : i \in Referred(pc)

\* self.getItem(self._row, self._col)
getItem(pc) == pc.rows[<< pc._row, pc._col >>]

\* the cells addItem enters for the subplot selected: for i in
\* range(rowspan): for j in range(colspan)
SpanCells(pc) ==
    [k \in 1..(pc._rowspan * pc._colspan) |->
        << pc._row + ((k - 1) \div pc._colspan), pc._col + ((k - 1) % pc._colspan) >>]

\* GraphicsLayout.addItem(p, row, col, rowspan, colspan)
addItem(pc, item) ==
    LET span == SpanCells(pc)
    IN [pc EXCEPT !.rows = [cell \in Cells |->
                              IF \E k \in 1..Len(span) : span[k] = cell
                                THEN item ELSE pc.rows[cell]],
                  !.cells[item] = span,
                  !.layout = @ \cup {item}]

\* for r, c in self.items[item]: del self.rows[r][c]
RECURSIVE DelRows(_, _, _)
DelRows(rows, cells, k) ==
    IF k > Len(cells) THEN [rows |-> rows, raised |-> "none"]
    ELSE IF rows[cells[k]] = 0 THEN [rows |-> rows, raised |-> "KeyError"]
    ELSE DelRows([rows EXCEPT ![cells[k]] = 0], cells, k + 1)

\* GraphicsLayout.removeItem(p)
removeItem(pc, item) ==
    IF item \notin pc.layout THEN Returned(pc, 0, "ValueError")
    ELSE LET deleted == DelRows(pc.rows, pc.cells[item], 1)
             removed == [pc EXCEPT !.layout = @ \ {item}, !.rows = deleted.rows]
         IN IF deleted.raised # "none" THEN Returned(removed, 0, deleted.raised)
            ELSE Returned([removed EXCEPT !.cells[item] = << >>], 0, "none")

\* PlotCore._get_plot_item()
_get_plot_item(pc) ==
    IF getItem(pc) # 0 THEN Returned(pc, getItem(pc), "none")
    ELSE LET p == NewPlotItem(pc)
             added == addItem([pc EXCEPT !.series[p] = << >>], p)
         IN Returned([added EXCEPT !._plot_item_settings[p] = "off",
                                   !._plot_items[<< pc._row, pc._col >>] = p],
                     p, "none")

\* PlotCore._remove_plot_item()
_remove_plot_item(pc) ==
    LET p == getItem(pc)
        r == removeItem(pc, p)
        unset == [r.plot_core EXCEPT !._plot_item_settings[p] = "None"]
    IN IF p = 0 THEN Returned(pc, 0, "none")
       ELSE IF r.raised # "none" THEN r
       ELSE IF pc._plot_items[<< pc._row, pc._col >>] = 0
         THEN Returned(unset, 0, "KeyError")
       ELSE Returned([unset EXCEPT !._plot_items[<< pc._row, pc._col >>] = 0], 0, "none")

\* PlotCore.subplot(row, col, rowspan, colspan)
PlotCore_subplot(pc, row, col, rowspan, colspan) ==
    Returned([pc EXCEPT !._row = row, !._col = col,
                        !._rowspan = rowspan, !._colspan = colspan], 0, "none")

\* PlotCore.hold(status)
PlotCore_hold(pc, status) ==
    LET got == _get_plot_item(pc)
    IN Returned([got.plot_core EXCEPT !._plot_item_settings[got.value] = status], 0, "none")

\* PlotCore.plot(*args, name=name)
PlotCore_plot(pc, name) ==
    LET got == _get_plot_item(pc)
        removed == _remove_plot_item(got.plot_core)
        again == _get_plot_item(removed.plot_core)
    IN IF got.plot_core._plot_item_settings[got.value] = "off"
         THEN IF removed.raised # "none" THEN removed
              ELSE Returned([again.plot_core EXCEPT !.series[again.value] = Append(@, name)],
                            0, "none")
         ELSE Returned([got.plot_core EXCEPT !.series[got.value] = Append(@, name)],
                       0, "none")

\* PlotWidget.plot(*args, label=name, hold=hold): PlotCore has no set_hold
PlotWidget_plot(pc, name, hold) ==
    LET plotted == PlotCore_plot(pc, name)
    IN IF plotted.raised = "none" /\ hold
         THEN Returned(plotted.plot_core, 0, "AttributeError")
         ELSE plotted

----------------------------------------------------------------------------
(* KeyFilter: the event filter of custom_key_filter.py *)

(* _key_timers gives the QTimer of every key: whether it is running         *)
(* (isActive()) and its interval; a key without a timer has NoTimer.  The   *)
(* timers are not single-shot: one that has timed out runs on.              *)

LONG_PRESS_THRESHOLD_MS == 500
LONG_PRESS_INTERVAL_MS == 25

NoTimer == [active |-> FALSE, interval |-> 0]

KeyFilter_init == [_key_timers |-> [key \in Keys |-> NoTimer]]

\* what a handler of the filter leaves: the filter, whether actionTriggered was
\* emitted, and the value eventFilter returns
Filtered(kf, emitted, handled) == [key_filter |-> kf, emitted |-> emitted, handled |-> handled]

\* eventFilter on a KeyPress
KeyPress(kf, key, isAutoRepeat) ==
    IF ~isAutoRepeat /\ kf._key_timers[key] = NoTimer
      THEN Filtered([kf EXCEPT !._key_timers[key] =
                        [active |-> TRUE, interval |-> LONG_PRESS_THRESHOLD_MS]],
                    FALSE, TRUE)
      ELSE Filtered(kf, FALSE, FALSE)

\* _handle_long_press leaving the interval of the timer as it is
_handle_long_press_unswitched(kf, key) ==
    LET timer == kf._key_timers[key]
    IN IF timer = NoTimer THEN Filtered(kf, FALSE, FALSE)
       ELSE Filtered(kf, TRUE, FALSE)

\* _handle_long_press(key), the slot of the timer of the key
_handle_long_press(kf, key) ==
    LET timer == kf._key_timers[key]
    IN IF timer = NoTimer THEN Filtered(kf, FALSE, FALSE)
       ELSE IF timer.interval = LONG_PRESS_THRESHOLD_MS
         THEN Filtered([kf EXCEPT !._key_timers[key].interval = LONG_PRESS_INTERVAL_MS],
                       TRUE, FALSE)
       ELSE Filtered(kf, TRUE, FALSE)

\* eventFilter on a KeyRelease
KeyRelease(kf, key, isAutoRepeat) ==
    IF ~isAutoRepeat /\ kf._key_timers[key] # NoTimer
      THEN LET timer == kf._key_timers[key]
               is_single_click == timer.active
           IN Filtered([kf EXCEPT !._key_timers[key] = NoTimer], is_single_click, TRUE)
      ELSE Filtered(kf, FALSE, FALSE)

----------------------------------------------------------------------------
(* FigPlot: the registry of figure windows, figplot.py *)

(* A title is an int or a str; a SingleWindow is known by a number, 0        *)
(* standing for no window, and the PlotWidget of a window by the number of  *)
(* its window.  _windows gives the window of every title in the dict and 0  *)
(* for the other titles; visible holds the windows isVisible() is true of;  *)
(* show tells whether show() is inside loop.exec().                         *)

IntTitle(n) == [kind |-> "int", int |-> n, str |-> ""]
StrTitle(str) == [kind |-> "str", int |-> 0, str |-> str]
NoTitle == [kind |-> "None", int |-> 0, str |-> ""]

Titles == {IntTitle(n) : n \in 0..MaxFigures} \cup {StrTitle("a")}

FigPlot_init ==
    [_app |-> FALSE, _windows |-> [t \in Titles |-> 0], visible |-> {}, show |-> "idle"]

\* self._windows.values()
Windows(fp) == {fp._windows[t] : t \in Titles} \ {0}

\* len(self._windows)
len(windows) == Cardinality({t \in Titles : windows[t] # 0})

\* SingleWindow(): a window that is none of those of the dict
NewWindow(fp) ==
    CHOOSE window \in 1..Cardinality(Titles) :
       /\ window \notin Windows(fp)
       /\ \A w \in 1..(window - 1) : w \in Windows(fp)

\* the title figure() looks up
FigureTitle(fp, title) == IF title = NoTitle THEN IntTitle(len(fp._windows)) ELSE title

\* FigPlot.figure(title): the FigPlot afterwards and the PlotWidget returned
FigPlot_figure(fp, title) ==
    LET t == FigureTitle(fp, title)
        window == NewWindow(fp)
        opened == IF fp._windows[t] = 0
                    THEN [fp EXCEPT !._windows[t] = window,
                                    !.visible = @ \cup {window}]
                    ELSE fp
    IN [figplot |-> [opened EXCEPT !._app = TRUE], plot_widget |-> opened._windows[t]]

\* FigPlot.close(title)
FigPlot_close(fp, title) ==
    IF fp._windows[title] # 0
      THEN [fp EXCEPT !.visible = @ \ {fp._windows[title]}, !._windows[title] = 0]
      ELSE fp

\* FigPlot.close_all()
FigPlot_close_all(fp) ==
    [fp EXCEPT !.visible = @ \ Windows(fp), !._windows = [t \in Titles |-> 0]]

\* check_windows of show(): all(not win.isVisible() for win in
\* self._windows.values())
check_windows_any(fp) == \E win \in Windows(fp) : win \notin fp.visible

check_windows(fp) == \A win \in Windows(fp) : win \notin fp.visible

----------------------------------------------------------------------------
(* Events *)

\* the record of an event: the handler, whether it went past its lock, and the
\* entry of the dispatch table it took
Event(ev, processed, action) ==
    [ev |-> ev, processed |-> processed, action |-> IF processed THEN action ELSE "None"]

\* the data of the series and the indexes the two queries keep of it
queryVars == << series_data, _kd_tree, _seg_vec, MarkCurves_seg_vec >>

\* the objects around a PlotItem: the key filter of its view, the PlotCore
\* that lays it out and the FigPlot that owns the windows
outerVars == << key_filter, plot_core, figplot >>

coreVars == << mouse_mode, hint_spot, dataItems, mark_spots, scatter_data, hint_curve,
               mark_curves, mark_curve_items, mark_curves_hint_curve, queryVars, outerVars >>

\* the fields a handler of PlotItem assigns
Assign(effect) ==
    \E e \in {effect} :
       /\ Len(e.mark_spots.mark_spots) <= MaxMarks
       /\ \E r \in {Renamed(e)} :
             /\ mouse_mode' = r.mouse_mode
             /\ hint_spot' = r.hint_spot
             /\ dataItems' = r.dataItems
             /\ mark_spots' = r.mark_spots
             /\ scatter_data' = r.scatter_data
             /\ hint_curve' = r.hint_curve
             /\ mark_curves' = r.mark_curves
             /\ mark_curve_items' = r.mark_curve_items
             /\ raised' = r.raised
             \* no handler of PlotItem calls a method of MarkCurves that
             \* reaches its own HintCurve
             /\ mark_curves_hint_curve' = mark_curves_hint_curve
             \* no handler replaces the data of a series; an index a query
             \* of a handler builds is the one a later query would build on
             \* the same data, and the handlers are modelled as reading the
             \* data: the indexes are carried where data is replaced
             \* (SpecQuery)
             /\ UNCHANGED queryVars
             /\ UNCHANGED << plot_core, figplot >>

\* a handler of PlotItem run by an event the key filter has no part in
Apply(effect) == Assign(effect) /\ UNCHANGED key_filter

\* hoverEvent without the test of _mouse_hover_lock
hoverEvent_unlocked(pos, exit, over_label) ==
    /\ over_label => (~exit /\ mark_spots.mark_spots # << >>)
    /\ (exit \/ over_label) => pos = << 0, 0 >>
    /\ last' = Event("hover", TRUE, IF exit THEN "exit" ELSE move_actions(mouse_mode))
    /\ UNCHANGED << mouse_double_click_lock, click_timers >>
    /\ mouse_hover_lock' = TRUE
    /\ hover_timers' = hover_timers + 1
    /\ IF exit THEN raised' = "none" /\ UNCHANGED coreVars
       ELSE \E data_point \in HoverCandidates(pos, over_label) :
                Apply(_process_hover_event(data_point))

\* hoverEvent clearing the hint on an exit
hoverEvent_clearing(pos, exit, over_label) ==
    /\ over_label => (~exit /\ mark_spots.mark_spots # << >>)
    /\ (exit \/ over_label) => pos = << 0, 0 >>
    /\ last' = Event("hover", ~mouse_hover_lock,
                     IF exit THEN "exit" ELSE move_actions(mouse_mode))
    /\ UNCHANGED << mouse_double_click_lock, click_timers >>
    /\ IF mouse_hover_lock
         THEN /\ raised' = "none"
              /\ UNCHANGED coreVars
              /\ UNCHANGED << mouse_hover_lock, hover_timers >>
         ELSE /\ mouse_hover_lock' = TRUE
              /\ hover_timers' = hover_timers + 1
              /\ \E data_point \in IF exit THEN {NoDataPoint}
                                     ELSE HoverCandidates(pos, over_label) :
                     Apply(_process_hover_event(data_point))

\* PlotItem.hoverEvent(event): event.pos() maps to pos, event.exit is exit, and
\* over_label tells whether scene().items(scene_pos) holds a mark's label
\* (the position is then of no account, and so it is on an exit)
hoverEvent(pos, exit, over_label) ==
    /\ over_label => (~exit /\ mark_spots.mark_spots # << >>)
    /\ (exit \/ over_label) => pos = << 0, 0 >>
    /\ last' = Event("hover", ~mouse_hover_lock,
                     IF exit THEN "exit" ELSE move_actions(mouse_mode))
    /\ UNCHANGED << mouse_double_click_lock, click_timers >>
    /\ IF mouse_hover_lock
         THEN /\ raised' = "none"
              /\ UNCHANGED coreVars
              /\ UNCHANGED << mouse_hover_lock, hover_timers >>
         ELSE /\ mouse_hover_lock' = TRUE
              /\ hover_timers' = hover_timers + 1
              /\ IF exit THEN raised' = "none" /\ UNCHANGED coreVars
                 ELSE \E data_point \in HoverCandidates(pos, over_label) :
                          Apply(_process_hover_event(data_point))

\* the lambda of QTimer.singleShot(25, ...)
HoverTimer ==
    /\ hover_timers > 0
    /\ hover_timers' = hover_timers - 1
    /\ mouse_hover_lock' = FALSE
    /\ last' = Event("hover_timer", TRUE, "None")
    /\ raised' = "none"
    /\ UNCHANGED coreVars
    /\ UNCHANGED << mouse_double_click_lock, click_timers >>

\* mouseClickEvent without the test of _mouse_double_click_lock
mouseClickEvent_unlocked(button, double, mods, choice) ==
    /\ choice # "dismiss" =>
          click_actions(mouse_mode, button, double, mods)
             \in {"raise_context_menu", "raise_context_curve_menu"}
    /\ last' = Event("click", TRUE, click_actions(mouse_mode, button, double, mods))
    /\ UNCHANGED << mouse_hover_lock, hover_timers >>
    /\ IF double
         THEN /\ mouse_double_click_lock' = TRUE
              /\ click_timers' = click_timers + 1
         ELSE UNCHANGED << mouse_double_click_lock, click_timers >>
    /\ Apply(_process_click_event(button, double, mods, choice))

\* mouseClickEvent setting the lock only for a double click the click table
\* has an entry for
mouseClickEvent_matched(button, double, mods, choice) ==
    /\ choice # "dismiss" =>
          /\ ~mouse_double_click_lock
          /\ click_actions(mouse_mode, button, double, mods)
                \in {"raise_context_menu", "raise_context_curve_menu"}
    /\ last' = Event("click", ~mouse_double_click_lock,
                     click_actions(mouse_mode, button, double, mods))
    /\ UNCHANGED << mouse_hover_lock, hover_timers >>
    /\ IF mouse_double_click_lock
         THEN /\ raised' = "none"
              /\ UNCHANGED coreVars
              /\ UNCHANGED << mouse_double_click_lock, click_timers >>
         ELSE /\ IF double /\ click_actions(mouse_mode, button, double, mods) # "None"
                   THEN /\ mouse_double_click_lock' = TRUE
                        /\ click_timers' = click_timers + 1
                   ELSE UNCHANGED << mouse_double_click_lock, click_timers >>
              /\ Apply(_process_click_event(button, double, mods, choice))

\* PlotItem.mouseClickEvent(event)
mouseClickEvent(button, double, mods, choice) ==
    /\ choice # "dismiss" =>
          /\ ~mouse_double_click_lock
          /\ click_actions(mouse_mode, button, double, mods)
                \in {"raise_context_menu", "raise_context_curve_menu"}
    /\ last' = Event("click", ~mouse_double_click_lock,
                     click_actions(mouse_mode, button, double, mods))
    /\ UNCHANGED << mouse_hover_lock, hover_timers >>
    /\ IF mouse_double_click_lock
         THEN /\ raised' = "none"
              /\ UNCHANGED coreVars
              /\ UNCHANGED << mouse_double_click_lock, click_timers >>
         ELSE /\ IF double
                   THEN /\ mouse_double_click_lock' = TRUE
                        /\ click_timers' = click_timers + 1
                   ELSE UNCHANGED << mouse_double_click_lock, click_timers >>
              /\ Apply(_process_click_event(button, double, mods, choice))

\* the lambda of QTimer.singleShot(QApplication.doubleClickInterval(), ...)
ClickTimer ==
    /\ click_timers > 0
    /\ click_timers' = click_timers - 1
    /\ mouse_double_click_lock' = FALSE
    /\ last' = Event("click_timer", TRUE, "None")
    /\ raised' = "none"
    /\ UNCHANGED coreVars
    /\ UNCHANGED << mouse_hover_lock, hover_timers >>

\* KeyFilter.actionTriggered(key), connected to _process_key_event
keyAction(key) ==
    /\ last' = Event("key", TRUE, press_actions(mouse_mode, key))
    /\ Apply(_process_key_event(key))
    /\ UNCHANGED << mouse_hover_lock, hover_timers, mouse_double_click_lock, click_timers >>

\* MarkSpot.drag_signal(mark_spot, pos), connected to MarkSpots.drag_event
dragEvent(i, pos) ==
    /\ i \in 1..Len(mark_spots.mark_spots)
    /\ last' = Event("drag", TRUE, "drag_event")
    /\ \E ms \in drag_event(mark_spots, i, pos) :
           Apply([NoEffect EXCEPT !.mark_spots = ms])
    /\ UNCHANGED << mouse_hover_lock, hover_timers, mouse_double_click_lock, click_timers >>

Init ==
    /\ mouse_mode = "pan"
    /\ hint_spot = [data_point |-> NoDataPoint, scatter_item |-> 0]
    /\ mark_spots = [mark_spots |-> << >>, in_focus_mark_spot |-> 0, items |-> 0]
    /\ hint_curve = [plot_data_item |-> NoItem, scatter_items |-> << >>]
    /\ mark_curves = {}
    /\ mark_curve_items = 0
    /\ mark_curves_hint_curve = NoHintCurve
    /\ series_data = UserData
    /\ _kd_tree = NoIndex
    /\ _seg_vec = NoIndex
    /\ MarkCurves_seg_vec = NoIndex
    /\ key_filter = KeyFilter_init
    /\ plot_core = PlotCore_init
    /\ figplot = FigPlot_init
    /\ dataItems = << Series(1), Series(2) >>
    /\ scatter_data = NoScatterData
    /\ mouse_hover_lock = FALSE
    /\ mouse_double_click_lock = FALSE
    /\ hover_timers = 0
    /\ click_timers = 0
    /\ raised = "none"
    /\ last = Event("init", TRUE, "None")

Next ==
    \/ \E pos \in Positions, exit \in BOOLEAN, over_label \in BOOLEAN :
           hoverEvent(pos, exit, over_label)
    \/ HoverTimer
    \/ \E button \in Buttons, double \in BOOLEAN, mods \in Modifiers, choice \in MenuChoices :
           mouseClickEvent(button, double, mods, choice)
    \/ ClickTimer
    \/ \E key \in Keys : keyAction(key)
    \/ \E i \in 1..MaxMarks, pos \in Positions : dragEvent(i, pos)

Spec == Init /\ [][Next]_vars

\* the event loop runs on: a pending single-shot callback is delivered
SpecTimers == Spec /\ WF_vars(HoverTimer) /\ WF_vars(ClickTimer)

\* the same with the pointer-moves drawn from NearPositions
NextNear ==
    \/ \E pos \in NearPositions, exit \in BOOLEAN, over_label \in BOOLEAN :
           hoverEvent(pos, exit, over_label)
    \/ HoverTimer
    \/ \E button \in Buttons, double \in BOOLEAN, mods \in Modifiers, choice \in MenuChoices :
           mouseClickEvent(button, double, mods, choice)
    \/ ClickTimer
    \/ \E key \in Keys : keyAction(key)
    \/ \E i \in 1..MaxMarks, pos \in Positions : dragEvent(i, pos)

SpecNear == Init /\ [][NextNear]_vars

----------------------------------------------------------------------------
(* The methods of HintCurve and MarkCurves called one after another on the *)
(* objects PlotItem constructs                                              *)

\* the candidates update is called with
Candidates == UserSeries \cup {NoItem}

\* what a call leaves: the HintCurve of PlotItem, the HintCurve of MarkCurves,
\* the curve marks and the items of the surface
Called(method, hc, mhc, mc, n, items) ==
    /\ last' = Event("call", TRUE, method)
    /\ raised' = "none"
    /\ hint_curve' = hc
    /\ mark_curves_hint_curve' = mhc
    /\ mark_curves' = mc
    /\ mark_curve_items' = n
    /\ dataItems' = items
    /\ UNCHANGED queryVars
    /\ UNCHANGED outerVars
    /\ UNCHANGED << mouse_mode, hint_spot, mark_spots, scatter_data, mouse_hover_lock,
                    mouse_double_click_lock, hover_timers, click_timers >>

\* PlotItem._hint_curve.update(plot_data_item)
hintCurveUpdate(plot_data_item) ==
    \E r \in {HintCurve_update("PlotItem", hint_curve, dataItems, plot_data_item)} :
       Called("HintCurve.update", r.hint_curve, mark_curves_hint_curve, mark_curves,
              mark_curve_items,
              r.dataItems)

\* PlotItem._hint_curve.clear()
hintCurveClear ==
    \E r \in {HintCurve_clear(hint_curve, dataItems)} :
       Called("HintCurve.clear", r.hint_curve, mark_curves_hint_curve, mark_curves,
              mark_curve_items,
              r.dataItems)

\* MarkCurves.update_hint_curve(view_pos), pixel_dist_threshold left at 20
update_hint_curve(view_pos) ==
    \E r \in {HintCurve_update("MarkCurves", mark_curves_hint_curve, dataItems,
                                find_nearest_curve(view_pos, HoverThreshold))} :
       Called("update_hint_curve", hint_curve, r.hint_curve, mark_curves,
              mark_curve_items, r.dataItems)

\* MarkCurves.clear_hint_curve()
clear_hint_curve ==
    \E r \in {HintCurve_clear(mark_curves_hint_curve, dataItems)} :
       Called("clear_hint_curve", hint_curve, r.hint_curve, mark_curves,
              mark_curve_items, r.dataItems)

\* MarkCurves.update_mark_curve(), discard_mark_curve(), toggle_mark_curve()
\* and clear_mark_curve()
markCurvesCall(method) ==
    Called(method, hint_curve, mark_curves_hint_curve,
           CASE method = "update_mark_curve" ->
                   update_mark_curve(mark_curves, mark_curves_hint_curve)
             [] method = "discard_mark_curve" ->
                   discard_mark_curve(mark_curves, mark_curves_hint_curve)
             [] method = "toggle_mark_curve" ->
                   toggle_mark_curve(mark_curves, mark_curves_hint_curve)
             [] OTHER -> clear_mark_curve(mark_curves),
           CASE method = "update_mark_curve" ->
                   add_mark_curve_items(mark_curves, mark_curve_items,
                                        mark_curves_hint_curve.plot_data_item)
             [] method = "discard_mark_curve" ->
                   remove_mark_curve_items(mark_curves, mark_curve_items,
                                           mark_curves_hint_curve.plot_data_item)
             [] method = "toggle_mark_curve" ->
                   toggle_mark_curve_items(mark_curves, mark_curve_items,
                                           mark_curves_hint_curve)
             [] OTHER -> clear_mark_curve_items(mark_curves, mark_curve_items),
           dataItems)

NextCurve ==
    \/ \E plot_data_item \in Candidates : hintCurveUpdate(plot_data_item)
    \/ hintCurveClear
    \/ \E view_pos \in NearPositions : update_hint_curve(view_pos)
    \/ clear_hint_curve
    \/ \E method \in {"update_mark_curve", "discard_mark_curve", "toggle_mark_curve",
                       "clear_mark_curve"} : markCurvesCall(method)

SpecCurve == Init /\ [][NextCurve]_vars

\* the same calls together with the click events of PlotItem, whose grab
\* entries read the HintCurve of PlotItem and write the curve marks
NextGrab ==
    \/ NextCurve
    \/ \E button \in Buttons, double \in BOOLEAN, mods \in Modifiers, choice \in MenuChoices :
           mouseClickEvent(button, double, mods, choice)
    \/ ClickTimer

SpecGrab == Init /\ [][NextGrab]_vars

\* the calls that reach a HintCurve together with the pointer-moves of
\* PlotItem, which renew the HintSpot on the surface the two HintCurves put
\* their markers on
NextHints ==
    \/ \E plot_data_item \in Candidates : hintCurveUpdate(plot_data_item)
    \/ hintCurveClear
    \/ \E view_pos \in NearPositions : update_hint_curve(view_pos)
    \/ clear_hint_curve
    \/ \E pos \in NearPositions, exit \in BOOLEAN : hoverEvent(pos, exit, FALSE)
    \/ HoverTimer

SpecHints == Init /\ [][NextHints]_vars

----------------------------------------------------------------------------
(* The methods of MarkSpots and of MarkCurves called one after another on   *)
(* the objects PlotItem constructs, with the drags the marks signal         *)

\* the DataPoints update_mark_spot and discard_mark_spot are called with
MarkCandidates == UserDataPoints \cup {NoDataPoint}

\* MarkSpots.update_mark_spot(data_point), discard_mark_spot(data_point),
\* clear_mark_spot(), move_mark_spot_forward() and move_mark_spot_backward()
markSpotsCall(method, data_point) ==
    /\ method \in {"update_mark_spot", "discard_mark_spot"} \/ data_point = NoDataPoint
    /\ last' = Event("call", TRUE, method)
    /\ Apply([NoEffect EXCEPT !.mark_spots =
                CASE method = "update_mark_spot" -> update_mark_spot(mark_spots, data_point)
                  [] method = "discard_mark_spot" -> discard_mark_spot(mark_spots, data_point)
                  [] method = "clear_mark_spot" -> clear_mark_spot(mark_spots)
                  [] method = "move_mark_spot_forward" -> move_mark_spot_forward(mark_spots)
                  [] OTHER -> move_mark_spot_backward(mark_spots)])
    /\ UNCHANGED << mouse_hover_lock, hover_timers, mouse_double_click_lock, click_timers >>

NextMarks ==
    \/ \E method \in {"update_mark_spot", "discard_mark_spot", "clear_mark_spot",
                       "move_mark_spot_forward", "move_mark_spot_backward"},
          data_point \in MarkCandidates :
           markSpotsCall(method, data_point)
    \/ \E i \in 1..MaxMarks, pos \in NearPositions : dragEvent(i, pos)
    \/ \E view_pos \in Positions : update_hint_curve(view_pos)
    \/ clear_hint_curve
    \/ \E method \in {"update_mark_curve", "discard_mark_curve", "toggle_mark_curve",
                       "clear_mark_curve"} : markCurvesCall(method)

SpecMarks == Init /\ [][NextMarks]_vars

----------------------------------------------------------------------------
(* _query_nearest_point called on the precomputed data of a series *)

\* the series queried: the two the user plotted, a segment along the x axis,
\* and one with a repeated sample (a segment of length zero)
Polylines ==
    {UserData[1], UserData[2],
     << << 0, 0 >>, << 10, 0 >> >>,
     << << 1, 1 >>, << 1, 1 >>, << 3, 2 >> >>}

QueryPoints == {<< x, y >> : x \in {-5, 0, 1, 2, 5, 7, 10, 15}, y \in {-2, 0, 1, 3}}

\* _query_nearest_point(_precompute_polyline(data_points), query_point); last
\* records the call with its arguments and the point it returns
queryNearestPoint(data_points, query_point) ==
    /\ last' = [ev |-> "call", processed |-> TRUE, action |-> "_query_nearest_point",
                data_points |-> data_points, query_point |-> query_point,
                point |-> _query_nearest_point(_precompute_polyline(data_points),
                                               query_point)]
    /\ raised' = "none"
    /\ UNCHANGED coreVars
    /\ UNCHANGED << mouse_hover_lock, hover_timers, mouse_double_click_lock, click_timers >>

NextPolyline ==
    \E data_points \in Polylines, query_point \in QueryPoints :
       queryNearestPoint(data_points, query_point)

SpecPolyline == Init /\ [][NextPolyline]_vars

----------------------------------------------------------------------------
(* The two queries with the indexes they keep, on series whose data the
   holder of a handle replaces (PlotDataItem.setData) *)

\* the rows setData can give the n-th series: those it was plotted with, the
\* same samples moved to y = 3, or none
Replacements(n) ==
    IF n = 1
      THEN {UserData[1], [i \in 1..Len(UserData[1]) |-> << UserData[1][i][1], 3 >>], NoData}
      ELSE {UserData[n], NoData}

QueryPositions == {<< 0, 0 >>, << 6, 0 >>, << 2, 3 >>}

QueryThresholds == {-1, HoverThreshold}

\* the index rebuilt on every query
Built_anew(index, n, pts) == [index EXCEPT ![n] = pts]

\* if plot_data_item not in index: index[plot_data_item] = (built on pts)
Built(index, n, pts) == IF index[n] = << >> THEN [index EXCEPT ![n] = pts] ELSE index

\* the for loop of _find_nearest_data_point from the k-th item on, with the
\* dict kd of KDTrees: the set of outcomes, each the value returned, the
\* dict afterwards and the exception raised
RECURSIVE FindPointLoopIndexed(_, _, _, _, _, _, _)
FindPointLoopIndexed(kd, items, k, coord_pos, thr, min_dist, min_data_point) ==
    IF k > Len(items)
      THEN {[data_point |-> min_data_point, kd_tree |-> kd, raised |-> "none"]}
    ELSE LET plot_data_item == items[k]
             pts == getData(plot_data_item)
             n == plot_data_item.id
             built == Built(kd, n, pts)
         IN IF pts = NoData
              THEN FindPointLoopIndexed(kd, items, k + 1, coord_pos, thr,
                                        min_dist, min_data_point)
            ELSE UNION {
              IF idx >= Len(pts)
                THEN {[data_point |-> NoDataPoint, kd_tree |-> built,
                       raised |-> "IndexError"]}
              ELSE
              LET d == << SqDist(mapViewToScene(Row(pts, idx)), mapViewToScene(coord_pos)), 1 >>
                  dp == DataPoint(plot_data_item, idx, Len(pts))
              IN IF thr < 0 /\ LessThanMin(d, min_dist)
                   THEN FindPointLoopIndexed(built, items, k + 1, coord_pos, thr, d, dp)
                 ELSE IF LessThanThreshold(d, thr)
                   THEN {[data_point |-> dp, kd_tree |-> built, raised |-> "none"]}
                 ELSE FindPointLoopIndexed(built, items, k + 1, coord_pos, thr,
                                           min_dist, min_data_point)
              : idx \in KDTreeQuery(built[n], coord_pos) }

\* the for loop of _find_nearest_curve (and of MarkCurves.find_nearest_curve)
\* from the k-th item on, with the table sv: the series returned and the
\* table afterwards
RECURSIVE FindCurveLoopIndexed(_, _, _, _, _, _, _)
FindCurveLoopIndexed(sv, items, k, coord_pos, thr, min_dist, min_plot_data_item) ==
    IF k > Len(items) THEN [plot_data_item |-> min_plot_data_item, seg_vec |-> sv]
    ELSE LET plot_data_item == items[k]
             n == plot_data_item.id
             built == Built(sv, n, getData(plot_data_item))
             closest_point == _query_nearest_point(_precompute_polyline(built[n]),
                                                   coord_pos)
             d == RatSqDist(closest_point, coord_pos, Scale)
         IN IF sv[n] = << >> /\ getData(plot_data_item) = NoData
              THEN FindCurveLoopIndexed(sv, items, k + 1, coord_pos, thr,
                                        min_dist, min_plot_data_item)
            ELSE IF thr < 0 /\ LessThanMin(d, min_dist)
              THEN FindCurveLoopIndexed(built, items, k + 1, coord_pos, thr, d,
                                        plot_data_item)
            ELSE IF LessThanThreshold(d, thr)
              THEN [plot_data_item |-> plot_data_item, seg_vec |-> built]
            ELSE FindCurveLoopIndexed(built, items, k + 1, coord_pos, thr,
                                      min_dist, min_plot_data_item)

\* what a call of a query leaves in last: the method, its arguments and the
\* value it returned
Query(action, coord_pos, thr, result) ==
    [ev |-> "call", processed |-> TRUE, action |-> action,
     coord_pos |-> coord_pos, thr |-> thr, result |-> result]

\* everything but the data of the series and the indexes
notQueryVars == << mouse_mode, hint_spot, dataItems, mark_spots, scatter_data, hint_curve,
                  mark_curves, mark_curve_items, mark_curves_hint_curve, outerVars, mouse_hover_lock,
                  hover_timers, mouse_double_click_lock, click_timers >>

\* PlotDataItem.setData on the handle of the n-th series
setData(n, pts) ==
    /\ series_data' = [series_data EXCEPT ![n] = pts]
    /\ last' = [ev |-> "call", processed |-> TRUE, action |-> "setData",
                coord_pos |-> << 0, 0 >>, thr |-> 0, result |-> Series(n)]
    /\ raised' = "none"
    /\ UNCHANGED << _kd_tree, _seg_vec, MarkCurves_seg_vec >>
    /\ UNCHANGED notQueryVars

\* PlotItem._find_nearest_data_point(coord_pos, None, thr)
findNearestDataPoint(coord_pos, thr) ==
    \E r \in FindPointLoopIndexed(_kd_tree, dataItems, 1, coord_pos, thr, Inf, NoDataPoint) :
       /\ _kd_tree' = r.kd_tree
       /\ raised' = r.raised
       /\ last' = Query("_find_nearest_data_point", coord_pos, thr, r.data_point)
       /\ UNCHANGED << series_data, _seg_vec, MarkCurves_seg_vec >>
       /\ UNCHANGED notQueryVars

\* PlotItem._find_nearest_curve(coord_pos, thr)
findNearestCurve(coord_pos, thr) ==
    LET r == FindCurveLoopIndexed(_seg_vec, dataItems, 1, coord_pos, thr, Inf, NoItem)
    IN /\ _seg_vec' = r.seg_vec
       /\ raised' = "none"
       /\ last' = Query("_find_nearest_curve", coord_pos, thr, r.plot_data_item)
       /\ UNCHANGED << series_data, _kd_tree, MarkCurves_seg_vec >>
       /\ UNCHANGED notQueryVars

\* MarkCurves.find_nearest_curve(coord_pos, thr)
MarkCurves_findNearestCurve(coord_pos, thr) ==
    LET r == FindCurveLoopIndexed(MarkCurves_seg_vec, dataItems, 1, coord_pos, thr,
                                  Inf, NoItem)
    IN /\ MarkCurves_seg_vec' = r.seg_vec
       /\ raised' = "none"
       /\ last' = Query("find_nearest_curve", coord_pos, thr, r.plot_data_item)
       /\ UNCHANGED << series_data, _kd_tree, _seg_vec >>
       /\ UNCHANGED notQueryVars

NextQuery ==
    \/ \E n \in 1..Len(UserData) : \E pts \in Replacements(n) : setData(n, pts)
    \/ \E coord_pos \in QueryPositions, thr \in QueryThresholds :
           findNearestDataPoint(coord_pos, thr)
    \/ \E coord_pos \in QueryPositions, thr \in QueryThresholds :
           findNearestCurve(coord_pos, thr)
    \/ \E coord_pos \in QueryPositions, thr \in QueryThresholds :
           MarkCurves_findNearestCurve(coord_pos, thr)

SpecQuery == Init /\ [][NextQuery]_vars

----------------------------------------------------------------------------
(* The calls of FigPlot, the user closing windows and the timer of show() *)

\* what a call of FigPlot leaves in last: the method, its argument and the
\* PlotWidget it returned (0 for None)
FigCall(action, title, plot_widget) ==
    [ev |-> "call", processed |-> TRUE, action |-> action, title |-> title,
     plot_widget |-> plot_widget]

\* everything but the FigPlot
notFigVars == << mouse_mode, hint_spot, dataItems, mark_spots, scatter_data, hint_curve,
                mark_curves, mark_curve_items, mark_curves_hint_curve, queryVars, key_filter, plot_core,
                mouse_hover_lock, hover_timers, mouse_double_click_lock, click_timers >>

\* figplot.figure(title), called while no show() is blocking the caller
figure(title) ==
    /\ figplot.show = "idle"
    /\ FigureTitle(figplot, title) \in Titles
    /\ \E r \in {FigPlot_figure(figplot, title)} :
          /\ figplot' = r.figplot
          /\ last' = FigCall("figure", title, r.plot_widget)
    /\ raised' = "none"
    /\ UNCHANGED notFigVars

\* figplot.close(title)
close(title) ==
    /\ figplot.show = "idle"
    /\ figplot' = FigPlot_close(figplot, title)
    /\ last' = FigCall("close", title, 0)
    /\ raised' = "none"
    /\ UNCHANGED notFigVars

\* figplot.close_all()
close_all ==
    /\ figplot.show = "idle"
    /\ figplot' = FigPlot_close_all(figplot)
    /\ last' = FigCall("close_all", NoTitle, 0)
    /\ raised' = "none"
    /\ UNCHANGED notFigVars

\* the user closes a visible window
closeEvent(window) ==
    /\ window \in figplot.visible
    /\ figplot' = [figplot EXCEPT !.visible = @ \ {window}]
    /\ last' = FigCall("closeEvent", NoTitle, window)
    /\ raised' = "none"
    /\ UNCHANGED notFigVars

\* figplot.show() up to loop.exec()
show ==
    /\ figplot.show = "idle"
    /\ figplot' = [figplot EXCEPT !._app = TRUE, !.show = "exec"]
    /\ last' = FigCall("show", NoTitle, 0)
    /\ raised' = "none"
    /\ UNCHANGED notFigVars

\* the timeout of the 100 ms timer of show(): check_windows, and after
\* loop.quit() the return of show()
showTimer ==
    /\ figplot.show = "exec"
    /\ IF check_windows(figplot)
         THEN /\ figplot' = [figplot EXCEPT !.show = "idle"]
              /\ last' = FigCall("show returned", NoTitle, 0)
         ELSE /\ figplot' = figplot
              /\ last' = FigCall("check_windows", NoTitle, 0)
    /\ raised' = "none"
    /\ UNCHANGED notFigVars

NextFig ==
    \/ \E title \in Titles \cup {NoTitle} : figure(title)
    \/ \E title \in Titles : close(title)
    \/ close_all
    \/ \E window \in 1..Cardinality(Titles) : closeEvent(window)
    \/ show
    \/ showTimer

SpecFig == Init /\ [][NextFig]_vars

\* the timer of show() keeps firing while the loop runs
SpecFigFair == SpecFig /\ WF_vars(showTimer)

----------------------------------------------------------------------------
(* The key events the filter is given and the timeouts of its timers *)

\* what a key event leaves in last: the event, whether the filter handled
\* it, whether actionTriggered was emitted, the key, and the interval the
\* timer of the key had when the event came (0 without a timer)
KeyEvent(ev, r, key) ==
    [ev |-> ev, processed |-> r.handled,
     action |-> IF r.emitted THEN "actionTriggered" ELSE "None",
     key |-> key, interval |-> key_filter._key_timers[key].interval]

\* a handler of the filter: actionTriggered.emit(key) runs the slot
\* _process_key_event(key) of PlotItem before emit returns
Filter(ev, r, key) ==
    /\ key_filter' = r.key_filter
    /\ last' = KeyEvent(ev, r, key)
    /\ IF r.emitted THEN Assign(_process_key_event(key))
       ELSE /\ raised' = "none"
            /\ UNCHANGED << mouse_mode, hint_spot, dataItems, mark_spots, scatter_data,
                            hint_curve, mark_curves, mark_curve_items, mark_curves_hint_curve, queryVars,
                            plot_core, figplot >>
    /\ UNCHANGED << mouse_hover_lock, hover_timers, mouse_double_click_lock, click_timers >>

\* eventFilter(watched, event) with a QKeyEvent of type KeyPress
keyPressEvent(key, isAutoRepeat) ==
    Filter("KeyPress", KeyPress(key_filter, key, isAutoRepeat), key)

\* eventFilter(watched, event) with a QKeyEvent of type KeyRelease
keyReleaseEvent(key, isAutoRepeat) ==
    Filter("KeyRelease", KeyRelease(key_filter, key, isAutoRepeat), key)

\* the timeout of the running timer of a key
keyTimer(key) ==
    /\ key_filter._key_timers[key].active
    /\ Filter("timeout", _handle_long_press(key_filter, key), key)

NextKey ==
    \/ \E key \in Keys, isAutoRepeat \in BOOLEAN : keyPressEvent(key, isAutoRepeat)
    \/ \E key \in Keys, isAutoRepeat \in BOOLEAN : keyReleaseEvent(key, isAutoRepeat)
    \/ \E key \in Keys : keyTimer(key)

SpecKey == Init /\ [][NextKey]_vars

----------------------------------------------------------------------------
(* The methods of a PlotCore and of the PlotWidget around it *)

\* what a call leaves in last: the method and the name plotted
PlotCall(action, name) ==
    [ev |-> "call", processed |-> TRUE, action |-> action, name |-> name]

\* a call of a method with outcome r
PlotCalled(action, name, r) ==
    /\ Cardinality(Referred(r.plot_core)) <= MaxPlotItems
    /\ \A item \in PlotItemIds : Len(r.plot_core.series[item]) <= MaxSeries
    /\ plot_core' = r.plot_core
    /\ raised' = r.raised
    /\ last' = PlotCall(action, name)
    /\ UNCHANGED << mouse_mode, hint_spot, dataItems, mark_spots, scatter_data, hint_curve,
                    mark_curves, mark_curve_items, mark_curves_hint_curve, queryVars, key_filter, figplot,
                    mouse_hover_lock, hover_timers, mouse_double_click_lock, click_timers >>

\* a new PlotItem can be made
CanCreate(pc) == Cardinality(Referred(pc)) < MaxPlotItems

\* PlotCore.subplot(row, col, rowspan, colspan)
subplot(row, col, rowspan, colspan) ==
    PlotCalled("PlotCore.subplot", "", PlotCore_subplot(plot_core, row, col, rowspan, colspan))

\* PlotCore.hold(status)
hold(status) ==
    /\ CanCreate(plot_core)
    /\ PlotCalled("PlotCore.hold", "", PlotCore_hold(plot_core, status))

\* PlotCore.plot(..., name=name)
plot(name) ==
    /\ CanCreate(plot_core)
    /\ PlotCalled("PlotCore.plot", name, PlotCore_plot(plot_core, name))

\* PlotWidget.plot(..., label=name, hold=hold)
plotWidgetPlot(name, h) ==
    /\ CanCreate(plot_core)
    /\ PlotCalled("PlotWidget.plot", name, PlotWidget_plot(plot_core, name, h))

\* PlotWidget.subplot and PlotWidget.hold: PlotCore has neither set_subplot
\* nor set_hold
plotWidgetCall(method) ==
    PlotCalled(method, "", Returned(plot_core, 0, "AttributeError"))

NextPlot ==
    \/ \E row \in SubplotRows, col \in SubplotCols, rowspan \in RowSpans, colspan \in ColSpans :
           subplot(row, col, rowspan, colspan)
    \/ \E status \in {"on", "off"} : hold(status)
    \/ \E name \in Labels : plot(name)
    \/ \E name \in Labels, h \in BOOLEAN : plotWidgetPlot(name, h)
    \/ \E method \in {"PlotWidget.subplot", "PlotWidget.hold"} : plotWidgetCall(method)

SpecPlot == Init /\ [][NextPlot]_vars

----------------------------------------------------------------------------
(* Properties *)

\* the marks of ms, in order, as the samples they are bound to
MarkedPoints(ms) == [i \in 1..Len(ms.mark_spots) |-> ms.mark_spots[i].data_point]

\* C1: in pan mode a processed single left click without modifiers leaves
\* exactly one mark, bound to the DataPoint the hint holds, when the hint holds
\* one; when the hint holds none, the marks and the mark in focus stay as
\* they were.
C1_PanClickRenewsMark ==
    [][(/\ mouse_mode = "pan"
        /\ ~mouse_double_click_lock
        /\ mouseClickEvent("left", FALSE, "none", "dismiss"))
       => IF hint_spot.data_point # NoDataPoint
            THEN /\ hint_spot'.data_point # NoDataPoint
                 /\ hint_spot'.data_point.data_index = hint_spot.data_point.data_index
                 /\ hint_spot'.data_point.length = hint_spot.data_point.length
                 /\ hint_spot.data_point.plot_data_item \in UserSeries
                       => hint_spot'.data_point = hint_spot.data_point
                 /\ MarkedPoints(mark_spots') = << hint_spot'.data_point >>
                 /\ mark_spots'.in_focus_mark_spot = 1
            ELSE mark_spots' = mark_spots]_vars

\* a pan click has just put the single mark on the hinted sample
C1_Witness ==
    /\ last = Event("click", TRUE, "renew_mark_spot")
    /\ hint_spot.data_point # NoDataPoint
    /\ MarkedPoints(mark_spots) = << hint_spot.data_point >>

\* the step is the handling of a click event: mouseClickEvent alone records
\* a click in last, and it does so for every event it is called with
AnyClick == last'.ev = "click"

\* C2: handling a double-click sets the double-click lock and leaves exactly
\* one interval callback pending; the lock stays set until that callback
\* fires, and every click event arriving before it is dropped: no action of
\* the click table runs, nothing is raised, and the mode, both hints and both
\* mark collections stay as they were.
C2_ClicksDroppedAfterDoubleClick ==
    [][/\ (AnyClick /\ ~mouse_double_click_lock)
             => \A button \in Buttons, mods \in Modifiers, choice \in MenuChoices :
                   mouseClickEvent(button, TRUE, mods, choice)
                      => (mouse_double_click_lock' /\ click_timers' = 1)
       /\ (click_timers > 0 /\ AnyClick)
             => /\ UNCHANGED coreVars
                /\ raised' = "none"
                /\ last' = Event("click", FALSE, "None")
                /\ mouse_double_click_lock' /\ click_timers' = click_timers
       /\ (mouse_double_click_lock /\ ~mouse_double_click_lock') => ClickTimer
       /\ mouse_double_click_lock' = (click_timers' > 0)]_vars

\* a click has just been dropped while a mark and a hint are held
C2_Witness ==
    /\ last = Event("click", FALSE, "None")
    /\ mouse_double_click_lock
    /\ click_timers = 1
    /\ hint_spot.data_point # NoDataPoint
    /\ mark_spots.mark_spots # << >>

\* the step is the handling of a pointer-move (or leave) event: hoverEvent
\* alone records a hover in last, and it does so for every event it is called
\* with
AnyHover == last'.ev = "hover"

\* C3: a processed pointer-move sets the hover lock and leaves exactly one
\* 25 ms callback pending; the lock stays set until that callback fires, and
\* every pointer-move arriving before it is suppressed: no hint update runs
\* and the hints, the marks and the mode stay as they were.
C3_HoversSuppressedInCoolDown ==
    [][/\ (AnyHover /\ ~mouse_hover_lock)
             => (last'.processed /\ mouse_hover_lock' /\ hover_timers' = 1)
       /\ (hover_timers > 0 /\ AnyHover)
             => /\ UNCHANGED coreVars
                /\ raised' = "none"
                /\ last' = Event("hover", FALSE, "None")
                /\ mouse_hover_lock' /\ hover_timers' = hover_timers
       /\ (mouse_hover_lock /\ ~mouse_hover_lock') => HoverTimer
       /\ mouse_hover_lock' = (hover_timers' > 0)]_vars

\* a pointer-move has just been suppressed in pan mode, where it would
\* otherwise have renewed the hint
C3_Witness ==
    /\ last = Event("hover", FALSE, "None")
    /\ mouse_hover_lock
    /\ hover_timers = 1
    /\ mouse_mode = "pan"

\* the mode transitions the specification calls compatible
CompatibleModes == {<< "pan", "select" >>, << "select", "pan" >>}

\* C4: a change of the mode clears the point hint, the curve hint, the point
\* marks and the curve marks, except that a change from pan to select or from
\* select to pan keeps the marks.
C4_ModeChangeClears ==
    [][mouse_mode' # mouse_mode
       => IF << mouse_mode, mouse_mode' >> \in CompatibleModes
            THEN mark_spots' = mark_spots /\ mark_curves' = mark_curves
            ELSE /\ hint_spot'.data_point = NoDataPoint
                 /\ hint_curve'.plot_data_item = NoItem
                 /\ mark_spots'.mark_spots = << >>
                 /\ mark_curves' = {}]_vars

\* C5: in grab mode a processed pointer-move leaves in HintCurve the series
\* the nearest-curve query finds at the pointer with the 20-pixel threshold
\* (none when no curve is that near).
C5_GrabHoverSetsHintCurve ==
    [][\A pos \in Positions :
          (mouse_mode = "grab" /\ ~mouse_hover_lock /\ hoverEvent(pos, FALSE, FALSE))
             => hint_curve'.plot_data_item = _find_nearest_curve(pos, HoverThreshold)]_vars

\* C6: in grab mode a processed single left click with Ctrl runs to its end
\* and toggles the mark of the hinted curve: added when absent, removed when
\* present, the other curve marks as before.
C6_GrabCtrlClickToggles ==
    [][(mouse_mode = "grab" /\ ~mouse_double_click_lock
        /\ mouseClickEvent("left", FALSE, "ctrl", "dismiss"))
       => /\ raised' = "none"
          /\ mark_curves' =
                IF hint_curve.plot_data_item = NoItem THEN mark_curves
                ELSE IF hint_curve.plot_data_item \in mark_curves
                  THEN mark_curves \ {hint_curve.plot_data_item}
                ELSE mark_curves \cup {hint_curve.plot_data_item}]_vars

\* C7: no pointer-move, click or key event ends in an error, in any mode and
\* any reachable hint and mark state.
C7_NoEventRaises == raised = "none"

\* the step is a key action: keyAction alone records a key in last
AnyKey == last'.ev = "key"

\* the handler changes nothing of the mode, the hints and the marks (the mark
\* in focus among them) and raises nothing
NoOp == UNCHANGED coreVars /\ raised' = "none"

\* C8: a processed event without an entry in its dispatch table (a
\* pointer-move in zoom mode, a click whose tuple is not in the click table,
\* a key other than an arrow key in select mode) changes neither the mode, the
\* hints, the mark collections nor the mark in focus, and raises nothing.
C8_UnmatchedEventIsNoOp ==
    [][/\ (AnyHover /\ mouse_mode = "zoom" /\ ~mouse_hover_lock) => NoOp
       /\ (AnyClick /\ ~mouse_double_click_lock)
          => \A button \in Buttons, double \in BOOLEAN, mods \in Modifiers :
             (/\ << mouse_mode, button, double, mods >> \notin
                    {<< "pan", "left", FALSE, "none" >>, << "pan", "left", TRUE, "none" >>,
                     << "select", "left", FALSE, "none" >>, << "select", "left", TRUE, "none" >>,
                     << "grab", "left", FALSE, "none" >>, << "grab", "left", FALSE, "ctrl" >>,
                     << "pan", "right", FALSE, "none" >>, << "zoom", "right", FALSE, "none" >>,
                     << "select", "right", FALSE, "none" >>, << "grab", "right", FALSE, "none" >>}
              /\ mouseClickEvent(button, double, mods, "dismiss"))
                => NoOp
       /\ AnyKey
          => \A key \in Keys :
             (/\ ~(mouse_mode = "select"
                   /\ key \in {"Key_Left", "Key_Up", "Key_Right", "Key_Down"})
              /\ keyAction(key))
                => NoOp]_vars

\* a pointer-move has just been processed in zoom mode with a hint and a mark
\* in place
C8_Witness ==
    /\ last = Event("hover", TRUE, "None")
    /\ mouse_mode = "zoom"
    /\ hint_spot.data_point # NoDataPoint
    /\ mark_spots.in_focus_mark_spot # 0

\* the mark collection ms with the index of its mark in focus changed to idx
WithFocusIndex(ms, idx) ==
    [ms EXCEPT !.mark_spots[ms.in_focus_mark_spot].data_point.data_index = idx]

FocusPoint(ms) == ms.mark_spots[ms.in_focus_mark_spot].data_point

\* C9: in select mode a key action for Left or Up moves the mark in focus to
\* the sample before it (index minus 1, the first sample being the limit) and
\* one for Right or Down to the sample after it (index plus 1, the last sample
\* being the limit), every other mark staying; in pan, zoom and grab mode an
\* arrow key changes no mark.
C9_ArrowKeysStepFocusMark ==
    [][AnyKey => \A key \in {"Key_Left", "Key_Up", "Key_Right", "Key_Down"} :
          keyAction(key) =>
             IF mouse_mode = "select" /\ mark_spots.in_focus_mark_spot # 0
               THEN LET dp == FocusPoint(mark_spots)
                    IN IF key \in {"Key_Left", "Key_Up"}
                         THEN mark_spots' = WithFocusIndex(mark_spots,
                                  IF dp.data_index = 0 THEN 0 ELSE dp.data_index - 1)
                         ELSE mark_spots' = WithFocusIndex(mark_spots,
                                  IF dp.data_index = dp.length - 1 THEN dp.length - 1
                                  ELSE dp.data_index + 1)
               ELSE mark_spots' = mark_spots]_vars

\* Left or Up has just brought the mark in focus to the middle sample of a
\* series of three, which it reaches from the last sample only
C9_Witness ==
    /\ last = Event("key", TRUE, "move_mark_spot_left")
    /\ mark_spots.in_focus_mark_spot # 0
    /\ FocusPoint(mark_spots).length = 3
    /\ FocusPoint(mark_spots).data_index = 1

\* C10: on a mark collection with a mark in focus, move_mark_spot_forward
\* keeps index 0 and otherwise lowers the index by exactly 1, and
\* move_mark_spot_backward keeps index length-1 and otherwise raises it by
\* exactly 1; with no mark in focus both leave the collection as it is.
C10_MoveClampsAtEnds ==
    LET forward == move_mark_spot_forward(mark_spots)
        backward == move_mark_spot_backward(mark_spots)
    IN IF mark_spots.in_focus_mark_spot = 0
         THEN forward = mark_spots /\ backward = mark_spots
         ELSE LET dp == FocusPoint(mark_spots)
              IN /\ forward = WithFocusIndex(mark_spots,
                                 IF dp.data_index = 0 THEN 0 ELSE dp.data_index - 1)
                 /\ backward = WithFocusIndex(mark_spots,
                                 IF dp.data_index = dp.length - 1 THEN dp.length - 1
                                 ELSE dp.data_index + 1)
                 /\ dp.data_index \in 0..(dp.length - 1)

\* Right or Down has just acted on a mark in focus that is on the last sample
\* of a series of three
C10_Witness ==
    /\ last = Event("key", TRUE, "move_mark_spot_right")
    /\ mark_spots.in_focus_mark_spot # 0
    /\ FocusPoint(mark_spots).length = 3
    /\ FocusPoint(mark_spots).data_index = 2

\* the ScatterPlotItem objects on the drawing surface
Markers(items) == {items[i] : i \in {k \in 1..Len(items) : items[k].kind = "scatter"}}

\* seq without the item x
Without(seq, x) == SelectSeq(seq, LAMBDA it : it # x)

\* the step is a processed pointer-move that calls update_hint_spot
HintUpdate == AnyHover /\ last'.processed /\ last'.action = "renew_hint_spot"

\* C11: update_hint_spot adds one marker to the drawing surface when it takes
\* a DataPoint while holding none, and a call that leaves the held DataPoint
\* as it was (the second of two calls with equal DataPoints) changes neither
\* the hint nor the surface; a call with no DataPoint takes exactly the held
\* marker off the surface, and touches nothing of the surface when none is
\* held.
C11_HintSpotSurfaceCalls ==
    [][HintUpdate =>
         LET held == hint_spot.data_point # NoDataPoint
             holds == hint_spot'.data_point # NoDataPoint
         IN /\ (held /\ hint_spot'.data_point = hint_spot.data_point)
                  => UNCHANGED << hint_spot, dataItems, scatter_data >>
            /\ (~held /\ holds)
                  => /\ hint_spot.scatter_item = 0 /\ hint_spot'.scatter_item # 0
                     /\ dataItems' = Append(dataItems, Scatter(hint_spot'.scatter_item))
            /\ (held /\ ~holds)
                  => /\ hint_spot.scatter_item # 0 /\ hint_spot'.scatter_item = 0
                     /\ dataItems' = Without(dataItems, Scatter(hint_spot.scatter_item))
                     /\ Len(dataItems') = Len(dataItems) - 1
            /\ (~held /\ ~holds)
                  => UNCHANGED << hint_spot, dataItems, scatter_data >>]_vars

\* update_hint_spot has just run in pan mode over a mark's label, where it is
\* called with no DataPoint, and has left no marker on the surface
C11_Witness ==
    /\ last = Event("hover", TRUE, "renew_hint_spot")
    /\ mouse_mode = "pan"
    /\ mark_spots.mark_spots # << >>
    /\ hint_spot = [data_point |-> NoDataPoint, scatter_item |-> 0]
    /\ Markers(dataItems) = {}

\* what update_hint_spot leaves for a DataPoint other than the one held
\* while the hint holds one, as the original statement has it: the existing
\* marker is off the surface and a newly created one shows the sample
C12_MarkerReplaced ==
    \A data_point \in UserDataPoints :
       (hint_spot.data_point \notin {NoDataPoint, data_point})
          => LET r == update_hint_spot(data_point)
             IN /\ r.hint_spot.data_point = data_point
                /\ r.hint_spot.scatter_item \notin {0, hint_spot.scatter_item}
                /\ Markers(r.dataItems) = {Scatter(r.hint_spot.scatter_item)}
                /\ r.scatter_data[r.hint_spot.scatter_item]
                      = Row(getData(data_point.plot_data_item), data_point.data_index)

\* C12: update_hint_spot with a DataPoint other than the one held, while the
\* hint holds one, stores the new DataPoint and moves the existing marker to
\* the coordinates of its sample, adding nothing to the surface and removing
\* nothing from it; afterwards exactly one hint marker is on the surface and
\* it shows the new sample.
C12_MarkerMoved ==
    \A data_point \in UserDataPoints :
       (hint_spot.data_point \notin {NoDataPoint, data_point})
          => LET r == update_hint_spot(data_point)
             IN /\ r.hint_spot.data_point = data_point
                /\ r.hint_spot.scatter_item = hint_spot.scatter_item
                /\ r.dataItems = dataItems
                /\ Markers(r.dataItems) = {Scatter(r.hint_spot.scatter_item)}
                /\ Cardinality({i \in 1..Len(r.dataItems) :
                                   r.dataItems[i].kind = "scatter"}) = 1
                /\ r.scatter_data[r.hint_spot.scatter_item]
                      = Row(getData(data_point.plot_data_item), data_point.data_index)

\* update_hint_spot has just left the hint on the middle sample of the first
\* series, with its marker there, while two marks are held
C12_Witness ==
    /\ last = Event("hover", TRUE, "renew_hint_spot")
    /\ hint_spot.data_point = DataPoint(Series(1), 1, 3)
    /\ hint_spot.scatter_item # 0
    /\ scatter_data[hint_spot.scatter_item] = << 2, 1 >>
    /\ Len(mark_spots.mark_spots) = 2

\* the markers of HintCurve objects on the drawing surface
CurveMarkers(items) == {items[i] : i \in {k \in 1..Len(items) : items[k].kind = "marker"}}

\* the items of seq, in order, that are not in the set S
Outside(seq, S) == SelectSeq(seq, LAMBDA it : it \notin S)

\* C13: HintCurve.update with no candidate takes every marker of the
\* HintCurve off the surface and leaves no series held; with the series held
\* it changes nothing; with another series it takes the old markers off the
\* surface, holds the new series and puts on the surface, after the items
\* that were there, one marker on its first and one on its last sample.
\* HintCurve.clear with nothing held changes nothing.  Items that are not
\* markers of this HintCurve stay on the surface in their order.
C13_HintCurveContract ==
    /\ \A plot_data_item \in Candidates :
          LET r == HintCurve_update("PlotItem", hint_curve, dataItems, plot_data_item)
              old == {hint_curve.scatter_items[k] : k \in 1..Len(hint_curve.scatter_items)}
              pts == getData(plot_data_item)
          IN IF plot_data_item = NoItem
               THEN /\ r.hint_curve = [plot_data_item |-> NoItem, scatter_items |-> << >>]
                    /\ r.dataItems = Outside(dataItems, old)
                    /\ \A it \in CurveMarkers(r.dataItems) : it.id[1] # "PlotItem"
             ELSE IF plot_data_item = hint_curve.plot_data_item
               THEN r.hint_curve = hint_curve /\ r.dataItems = dataItems
             ELSE /\ r.hint_curve.plot_data_item = plot_data_item
                  /\ r.hint_curve.scatter_items
                        = << CurveMarker("PlotItem", 1, pts[1]),
                             CurveMarker("PlotItem", 2, pts[Len(pts)]) >>
                  /\ r.dataItems = Outside(dataItems, old) \o r.hint_curve.scatter_items
                  /\ {it \in CurveMarkers(r.dataItems) : it.id[1] = "PlotItem"}
                        = {r.hint_curve.scatter_items[1], r.hint_curve.scatter_items[2]}
    /\ Len(dataItems) = Len(Outside(dataItems, CurveMarkers(dataItems)))
                           + Len(hint_curve.scatter_items)
                           + Len(mark_curves_hint_curve.scatter_items)
    /\ hint_curve.plot_data_item = NoItem
          => /\ hint_curve.scatter_items = << >>
             /\ HintCurve_clear(hint_curve, dataItems) = HintCurveEffect(hint_curve, dataItems)

\* HintCurve.update has just replaced the held series by the one-sample
\* series, while the HintCurve of MarkCurves has its markers on the surface
C13_Witness ==
    /\ last = Event("call", TRUE, "HintCurve.update")
    /\ hint_curve.plot_data_item = Series(2)
    /\ hint_curve.scatter_items
          = << CurveMarker("PlotItem", 1, << 6, 0 >>), CurveMarker("PlotItem", 2, << 6, 0 >>) >>
    /\ mark_curves_hint_curve.plot_data_item = Series(1)
    /\ Len(dataItems) = 6

\* the step is a processed click that calls update_mark_spot on the marks as
\* they are, with the DataPoint the hint holds
AddMarkSpot == last'.action = "add_mark_spot" /\ hint_spot.data_point # NoDataPoint

\* C14: update_mark_spot with the DataPoint of an existing mark only puts
\* that mark in focus: the list of marks and the number of marks on the
\* drawing surface stay as they were.  With any other DataPoint it appends
\* exactly one mark bound to that DataPoint, puts one more mark on the
\* surface and sets the new mark in focus.
C14_UpdateMarkSpot ==
    [][(AnyClick /\ AddMarkSpot) =>
         LET data_point == hint_spot.data_point
             points == MarkedPoints(mark_spots)
         IN IF \E i \in 1..Len(points) : points[i] = data_point
              THEN /\ MarkedPoints(mark_spots') = points
                   /\ mark_spots'.items = mark_spots.items
                   /\ mark_spots'.in_focus_mark_spot # 0
                   /\ FocusPoint(mark_spots') = data_point
              ELSE /\ MarkedPoints(mark_spots') = Append(points, data_point)
                   /\ mark_spots'.items = mark_spots.items + 1
                   /\ mark_spots'.in_focus_mark_spot = Len(points) + 1
                   /\ mark_spots'.items = Len(mark_spots'.mark_spots)]_vars

\* update_mark_spot has just put the first of two marks in focus, which it
\* does only when it finds the mark (a new mark is appended and is the last)
C14_Witness ==
    /\ last = Event("click", TRUE, "add_mark_spot")
    /\ Len(mark_spots.mark_spots) = 2
    /\ mark_spots.items = 2
    /\ mark_spots.in_focus_mark_spot = 1
    /\ hint_spot.data_point = mark_spots.mark_spots[1].data_point

\* the step is a processed double click that calls discard_mark_spot with the
\* DataPoint the hint holds
DiscardMarkSpot == last'.action = "discard_mark_spot" /\ hint_spot.data_point # NoDataPoint

\* C15: discard_mark_spot takes the mark with the given DataPoint out of the
\* collection and off the drawing surface; the mark in focus is cleared when
\* it is the removed one, and a different mark in focus stays in focus.
C15_DiscardKeepsOtherFocus ==
    [][(AnyClick /\ DiscardMarkSpot) =>
         LET found == _find_mark_spot_by_data_point(mark_spots, hint_spot.data_point)
             focus == mark_spots.in_focus_mark_spot
             points == MarkedPoints(mark_spots)
         IN IF found = 0 THEN mark_spots' = mark_spots
            ELSE /\ MarkedPoints(mark_spots')
                       = SubSeq(points, 1, found - 1) \o SubSeq(points, found + 1, Len(points))
                 /\ mark_spots'.items = mark_spots.items - 1
                 /\ mark_spots'.in_focus_mark_spot =
                       IF focus = found THEN 0
                       ELSE IF focus > found THEN focus - 1 ELSE focus]_vars

\* C16: a drag of a mark to a view position rebinds that mark to a sample of
\* the series it is on, one that no sample of the series is nearer to the
\* position than (distance in view coordinates, no threshold); the series and
\* the length of its DataPoint stay, and so do every other mark, the number of
\* marks on the surface and the mark in focus.
C16_DragRebindsWithinSeries ==
    \A i \in 1..Len(mark_spots.mark_spots), pos \in NearPositions :
       \A ms \in drag_event(mark_spots, i, pos) :
          LET old == mark_spots.mark_spots[i].data_point
              new == ms.mark_spots[i].data_point
              pts == getData(old.plot_data_item)
          IN /\ new.plot_data_item = old.plot_data_item
             /\ new.length = old.length
             /\ new.data_index \in 0..(Len(pts) - 1)
             /\ \A j \in 0..(Len(pts) - 1) :
                   SqDist(Row(pts, new.data_index), pos) <= SqDist(Row(pts, j), pos)
             /\ ms = [mark_spots EXCEPT !.mark_spots[i].data_point = new]

\* a drag has just left a mark that is not in focus on the sample <<4, 1>> of
\* the first series, beside a mark on the other series
C16_Witness ==
    /\ last = Event("drag", TRUE, "drag_event")
    /\ Len(mark_spots.mark_spots) = 2
    /\ mark_spots.in_focus_mark_spot = 2
    /\ mark_spots.mark_spots[1].data_point = DataPoint(Series(1), 2, 3)
    /\ mark_spots.mark_spots[2].data_point = DataPoint(Series(2), 0, 1)

\* C17: two calls of toggle_mark_curve with the same series hinted leave the
\* set of curve marks they started from.  When the series has no mark the
\* first call adds exactly its mark and the second removes it, a net change of
\* zero marks; when it has one the first call removes exactly that mark; with
\* no series hinted a call changes nothing.
C17_ToggleTwiceRestores ==
    LET hinted == mark_curves_hint_curve.plot_data_item
        once == toggle_mark_curve(mark_curves, mark_curves_hint_curve)
        twice == toggle_mark_curve(once, mark_curves_hint_curve)
    IN /\ twice = mark_curves
       /\ Cardinality(twice) - Cardinality(mark_curves) = 0
       /\ hinted = NoItem => once = mark_curves
       /\ (hinted # NoItem /\ hinted \notin mark_curves)
             => /\ once = mark_curves \cup {hinted}
                /\ Cardinality(once) = Cardinality(mark_curves) + 1
       /\ (hinted # NoItem /\ hinted \in mark_curves)
             => /\ once = mark_curves \ {hinted}
                /\ Cardinality(once) = Cardinality(mark_curves) - 1

\* toggle_mark_curve has just run with the first series hinted and has left
\* the mark of the second series alone: the first series had a mark, which a
\* call before this one put there
C17_Witness ==
    /\ last = Event("call", TRUE, "toggle_mark_curve")
    /\ mark_curves_hint_curve.plot_data_item = Series(1)
    /\ mark_curves = {Series(2)}

\* the squared pixel distance from the sample idx of item to the position pos
PixelSqDist(item, idx, pos) ==
    SqDist(mapViewToScene(Row(getData(item), idx)), mapViewToScene(pos))

\* the samples of the items on the surface, as pairs of item and index
Samples ==
    UNION {{<< dataItems[k], idx >> : idx \in 0..(Len(getData(dataItems[k])) - 1)} :
              k \in 1..Len(dataItems)}

Reverse(seq) == [k \in 1..Len(seq) |-> seq[Len(seq) + 1 - k]]

\* C18: with a threshold below 0 the nearest-point query over all series
\* returns a sample that no sample of any series is nearer to the pointer than,
\* in pixels, and it returns the same with the series taken in the reverse
\* order.
C18_GlobalPixelMinimum ==
    \A pos \in NearPositions :
       LET found == _find_nearest_data_point(pos, NoItem, -1)
       IN /\ \A dp \in found :
                /\ dp # NoDataPoint
                /\ \A sample \in Samples :
                      PixelSqDist(dp.plot_data_item, dp.data_index, pos)
                         <= PixelSqDist(sample[1], sample[2], pos)
          /\ FindPointLoop(Reverse(dataItems), 1, pos, -1, Inf, NoDataPoint) = found

\* the thresholds the query is called with: 0 and that of the hover queries
Thresholds == {0, HoverThreshold}

\* C19: with a threshold of 0 or more the nearest-point query returns the
\* candidate of the first series, in the order of listDataItems(), whose
\* candidate is nearer than the threshold in pixels, and it returns none
\* exactly when no sample of any series is nearer than the threshold.
C19_NoneIffNoSampleWithin ==
    \A pos \in NearPositions, thr \in Thresholds :
       \A dp \in _find_nearest_data_point(pos, NoItem, thr) :
          /\ dp # NoDataPoint
                => \E k \in 1..Len(dataItems) :
                      /\ dp.plot_data_item = dataItems[k]
                      /\ dp.data_index \in KDTreeQuery(getData(dataItems[k]), pos)
                      /\ dp.length = Len(getData(dataItems[k]))
                      /\ PixelSqDist(dataItems[k], dp.data_index, pos) < thr * thr
                      /\ \A h \in 1..(k - 1) :
                            \E idx \in KDTreeQuery(getData(dataItems[h]), pos) :
                               PixelSqDist(dataItems[h], idx, pos) >= thr * thr
          /\ dp = NoDataPoint
                <=> \A sample \in Samples :
                       PixelSqDist(sample[1], sample[2], pos) >= thr * thr

\* _query_nearest_point has just been called
Queried == last.action = "_query_nearest_point"

\* the point p = (x / den, y / den) is the point << x, y >>
IsPoint(p, x, y) == p.den > 0 /\ p.x = x * p.den /\ p.y = y * p.den

\* the point p lies on the segment from a to b
OnSegment(p, a, b) ==
    LET dot == (p.x - a[1] * p.den) * (b[1] - a[1]) + (p.y - a[2] * p.den) * (b[2] - a[2])
    IN /\ (p.x - a[1] * p.den) * (b[2] - a[2]) = (p.y - a[2] * p.den) * (b[1] - a[1])
       /\ 0 <= dot
       /\ dot <= p.den * SqDist(a, b)

\* the points at the quarters of the segment from a to b, ends included
Quarters(a, b) ==
    {[x |-> 4 * a[1] + k * (b[1] - a[1]), y |-> 4 * a[2] + k * (b[2] - a[2]), den |-> 4] :
        k \in 0..4}

\* C20: for the series [(0,0), (10,0)] the nearest point on the curve is (5,0)
\* for the query (5,1), (0,0) for the query (-5,1) and (10,0) for the query
\* (15,1); for a series of a single sample it is that sample whatever the
\* query.  For every series the point returned lies on one of its segments and
\* no end, middle or quarter point of a segment is nearer to the query.
C20_PolylineProjection ==
    Queried =>
       LET pts == last.data_points
           qp == last.query_point
           p == last.point
       IN /\ (pts = << << 0, 0 >>, << 10, 0 >> >> /\ qp = << 5, 1 >>) => IsPoint(p, 5, 0)
          /\ (pts = << << 0, 0 >>, << 10, 0 >> >> /\ qp = << -5, 1 >>) => IsPoint(p, 0, 0)
          /\ (pts = << << 0, 0 >>, << 10, 0 >> >> /\ qp = << 15, 1 >>) => IsPoint(p, 10, 0)
          /\ Len(pts) = 1 => IsPoint(p, pts[1][1], pts[1][2])
          /\ Len(pts) > 1 =>
                /\ \E i \in 1..(Len(pts) - 1) : OnSegment(p, pts[i], pts[i + 1])
                /\ \A i \in 1..(Len(pts) - 1) :
                      \A g \in Quarters(pts[i], pts[i + 1]) :
                         ~RatLess(RatSqDist(g, qp, << 1, 1 >>), RatSqDist(p, qp, << 1, 1 >>))

\* the query (-5, 1) on the series [(0,0), (10,0)] has just returned the
\* first sample: the projection falls before the segment and is clamped
C20_Witness ==
    /\ Queried
    /\ last.data_points = << << 0, 0 >>, << 10, 0 >> >>
    /\ last.query_point = << -5, 1 >>
    /\ IsPoint(last.point, 0, 0)

\* the series a call of a query returned (the series of the DataPoint, for
\* the nearest-point query), NoItem when it returned None
ReturnedSeries ==
    IF last.action = "_find_nearest_data_point" THEN last.result.plot_data_item
    ELSE IF last.action \in {"_find_nearest_curve", "find_nearest_curve"} THEN last.result
    ELSE NoItem

\* C21: a query never returns a series whose data has a missing coordinate
\* array at the time of the query, whether or not the series was queried
\* before while its data was complete, and the series makes the query raise
\* nothing
C21_MissingDataSkipped ==
    /\ ReturnedSeries # NoItem => series_data[ReturnedSeries.id] # NoData
    /\ (\E n \in 1..Len(UserData) : series_data[n] = NoData) => raised = "none"

\* C22: a processed single left click without modifiers in grab mode leaves
\* exactly the series the HintCurve of PlotItem holds as the marked curves,
\* and no marked curve at all when it holds none
C22_GrabClickReplacesMarks ==
    [][(AnyClick /\ last'.action = "renew_selected_curve")
         => /\ mouse_mode = "grab"
            /\ mark_curves' = IF hint_curve.plot_data_item # NoItem
                                THEN {hint_curve.plot_data_item} ELSE {}
            /\ raised' = "none"]_vars

\* a grab click has replaced the marks by the hinted series, which is not the
\* series MarkCurves was last told to mark
C22_Witness ==
    /\ last.ev = "click" /\ last.action = "renew_selected_curve"
    /\ hint_curve.plot_data_item = Series(2)
    /\ mark_curves_hint_curve.plot_data_item = Series(1)
    /\ mark_curves = {Series(2)}

\* C23: a processed single left click without modifiers in select mode keeps
\* every mark there was, in its place; when the hint holds a DataPoint, a
\* mark bound to that DataPoint is in focus afterwards, and when it holds
\* none, the marks and the mark in focus are as before
C23_SelectClickAdditive ==
    [][(AnyClick /\ last'.action = "add_mark_spot")
         => /\ mouse_mode = "select"
            /\ Len(mark_spots'.mark_spots) >= Len(mark_spots.mark_spots)
            /\ \A i \in 1..Len(mark_spots.mark_spots) :
                   mark_spots'.mark_spots[i] = mark_spots.mark_spots[i]
            /\ IF hint_spot.data_point # NoDataPoint
                 THEN /\ mark_spots'.in_focus_mark_spot # 0
                      /\ FocusPoint(mark_spots') = hint_spot.data_point
                 ELSE mark_spots' = mark_spots]_vars

\* a select click has added a second mark, on the hinted sample, behind the
\* first and set it in focus
C23_Witness ==
    /\ last = Event("click", TRUE, "add_mark_spot")
    /\ mouse_mode = "select"
    /\ Len(mark_spots.mark_spots) = 2
    /\ mark_spots.in_focus_mark_spot = 2
    /\ hint_spot.data_point = mark_spots.mark_spots[2].data_point
    /\ mark_spots.mark_spots[1].data_point # hint_spot.data_point

\* C24: a call of figure() without a title returns a figure that was not
\* open before the call and is open after it, whatever calls of figure() and
\* close() came before; a call of figure(title) with a title that is open
\* returns the figure of that title and opens none
C24_FigureNewOrExisting ==
    [][(last'.ev = "call" /\ last'.action = "figure")
         => IF last'.title = NoTitle
              THEN /\ last'.plot_widget \notin Windows(figplot)
                   /\ last'.plot_widget \in Windows(figplot')
              ELSE figplot._windows[last'.title] # 0
                     => /\ last'.plot_widget = figplot._windows[last'.title]
                        /\ figplot'._windows = figplot._windows]_vars

\* C26: show() returns only at a moment when no window of the registry is
\* visible, and once it is blocking with no window of the registry visible
\* it does return
C26_ShowBlocksUntilClosed ==
    /\ [][(figplot.show = "exec" /\ figplot'.show = "idle")
            => \A win \in Windows(figplot') : win \notin figplot'.visible]_vars
    /\ ((figplot.show = "exec" /\ \A win \in Windows(figplot) : win \notin figplot.visible)
          ~> figplot.show = "idle")

\* show() has returned with two windows in the registry, which the user
\* closed
C26_Witness ==
    /\ last.action = "show returned"
    /\ figplot.show = "idle"
    /\ Cardinality(Windows(figplot)) = 2
    /\ figplot.visible = {}

\* C25: a key release the filter handles emits actionTriggered exactly when
\* the timer of the key had not timed out yet, that is, still had the
\* long-press threshold as its interval; a release after the long press has
\* fired emits nothing
C25_ReleaseEmitsOnlyBeforeLongPress ==
    [][(last'.ev = "KeyRelease" /\ last'.processed)
         => (last'.action = "actionTriggered"
               <=> key_filter._key_timers[last'.key].interval = LONG_PRESS_THRESHOLD_MS)]_vars

\* the step is a call of plot, of PlotCore or of PlotWidget
AnyPlot == last'.ev = "call" /\ last'.action \in {"PlotCore.plot", "PlotWidget.plot"}

\* C27: plot on a subplot whose hold is off (or that has no plot item yet)
\* leaves on that subplot a plot item with the new series alone; plot on a
\* subplot whose hold is on leaves the plot item in place with the new
\* series behind those it had
C27_PlotHonoursHold ==
    [][AnyPlot =>
         LET p == getItem(plot_core)
             q == getItem(plot_core')
         IN IF p # 0 /\ plot_core._plot_item_settings[p] = "on"
              THEN /\ q = p
                   /\ plot_core'.series[p] = Append(plot_core.series[p], last'.name)
              ELSE /\ q # 0
                   /\ plot_core'.series[q] = << last'.name >>]_vars

\* the step is a call of the query named, and its loop comes to the n-th
\* series: it scans them all, or returns none, or returns that series or a
\* later one
Reaches(action, n) ==
    /\ last'.ev = "call" /\ last'.action = action
    /\ last'.thr < 0 \/ ReturnedSeries' = NoItem \/ ReturnedSeries'.id >= n

\* C28: an entry of an index, once built, is the same after every step,
\* queries and replacements of the data of the series included; a query
\* that comes to a series with data and without an entry builds the entry
\* on the data the series has then
C28_IndexBuiltOnceAndKept ==
    [][\A n \in 1..Len(UserData) :
          /\ _kd_tree[n] # << >> => _kd_tree'[n] = _kd_tree[n]
          /\ _seg_vec[n] # << >> => _seg_vec'[n] = _seg_vec[n]
          /\ MarkCurves_seg_vec[n] # << >> => MarkCurves_seg_vec'[n] = MarkCurves_seg_vec[n]
          /\ (Reaches("_find_nearest_data_point", n) /\ series_data[n] # NoData
                /\ _kd_tree[n] = << >>)
               => _kd_tree'[n] = series_data[n]
          /\ (Reaches("_find_nearest_curve", n) /\ series_data[n] # NoData
                /\ _seg_vec[n] = << >>)
               => _seg_vec'[n] = series_data[n]
          /\ (Reaches("find_nearest_curve", n) /\ series_data[n] # NoData
                /\ MarkCurves_seg_vec[n] = << >>)
               => MarkCurves_seg_vec'[n] = series_data[n]]_vars

\* a point query and a curve query have run on the first series after its
\* data was replaced, and both entries are still those built on the data it
\* was plotted with
C28_Witness ==
    /\ last.ev = "call" /\ last.action = "_find_nearest_curve"
    /\ series_data[1] \notin {NoData, UserData[1]}
    /\ _kd_tree[1] = UserData[1]
    /\ _seg_vec[1] = UserData[1]

\* the series of the table sv in the order of listDataItems(): the places k
\* of dataItems whose series has a polyline in sv
InTable(sv, k) == sv[dataItems[k].id] # << >>

\* the squared pixel distance, as a fraction, from pos to the point of the
\* polyline of the k-th series nearest to it
CurveSqDist(sv, k, pos) ==
    RatSqDist(_query_nearest_point(_precompute_polyline(sv[dataItems[k].id]), pos),
              pos, Scale)

\* the selection policy on the outcome r of a curve query at pos with
\* threshold thr, r.seg_vec being the table the query leaves
CurvePolicy(r, pos, thr) ==
    LET sv == r.seg_vec
        places == 1..Len(dataItems)
        d(k) == CurveSqDist(sv, k, pos)
        within(k) == InTable(sv, k) /\ d(k)[1] < thr * thr * d(k)[2]
    IN IF thr < 0
         THEN IF \A k \in places : ~InTable(sv, k) THEN r.plot_data_item = NoItem
              ELSE \E k \in places :
                      /\ r.plot_data_item = dataItems[k]
                      /\ InTable(sv, k)
                      /\ \A j \in places :
                             InTable(sv, j) => d(k)[1] * d(j)[2] <= d(j)[1] * d(k)[2]
                      /\ \A j \in 1..(k - 1) :
                             InTable(sv, j) => d(k)[1] * d(j)[2] < d(j)[1] * d(k)[2]
         ELSE IF \E k \in places : r.plot_data_item = dataItems[k]
           THEN \E k \in places :
                   /\ r.plot_data_item = dataItems[k]
                   /\ within(k)
                   /\ \A j \in 1..(k - 1) : ~within(j)
           ELSE r.plot_data_item = NoItem /\ \A k \in places : ~within(k)

C30_HoverSetsHint ==
    [][\A pos \in Positions, over_label \in BOOLEAN :
          (/\ mouse_mode \in {"pan", "select"}
           /\ ~mouse_hover_lock
           /\ hoverEvent(pos, FALSE, over_label))
            => /\ last' = Event("hover", TRUE, "renew_hint_spot")
               /\ raised' = "none"
               /\ IF over_label
                    THEN hint_spot'.data_point = NoDataPoint
                    ELSE hint_spot'.data_point
                            \in _find_nearest_data_point(pos, NoItem, HoverThreshold)]_vars

\* a pointer-move in select mode has left the hint on the sample of the
\* second series, the first series being out of reach, while a mark is set
C30_Witness ==
    /\ last = Event("hover", TRUE, "renew_hint_spot")
    /\ mouse_mode = "select"
    /\ hint_spot.data_point = DataPoint(Series(2), 0, 1)
    /\ mark_spots.mark_spots # << >>

\* C31: a key press emits nothing, and one that is not an auto-repeat starts
\* the timer of a key that has none at the long-press threshold; every timeout
\* is of the timer of a held key, emits one action and leaves the timer
\* running at the repeat interval, so the first action comes when the
\* threshold elapses and one more with every repeat interval; a release that
\* is not an auto-repeat leaves no timer for the key, so no timeout of it
\* follows; an auto-repeat press or release changes no timer and emits nothing.
C31_LongPressRepeats ==
    [][\A key \in Keys :
          /\ keyPressEvent(key, FALSE)
                => /\ last'.action = "None"
                   /\ key_filter'._key_timers[key] =
                         IF key_filter._key_timers[key] = NoTimer
                           THEN [active |-> TRUE, interval |-> LONG_PRESS_THRESHOLD_MS]
                           ELSE key_filter._key_timers[key]
          /\ (last'.ev = "timeout" /\ last'.key = key)
                => /\ key_filter._key_timers[key].active
                   /\ key_filter._key_timers[key].interval
                         \in {LONG_PRESS_THRESHOLD_MS, LONG_PRESS_INTERVAL_MS}
                   /\ last'.action = "actionTriggered"
                   /\ key_filter'._key_timers[key] =
                         [active |-> TRUE, interval |-> LONG_PRESS_INTERVAL_MS]
          /\ keyReleaseEvent(key, FALSE)
                => /\ key_filter'._key_timers[key] = NoTimer
                   /\ ~key_filter'._key_timers[key].active
          /\ (keyPressEvent(key, TRUE) \/ keyReleaseEvent(key, TRUE))
                => /\ UNCHANGED key_filter
                   /\ last'.action = "None"
          /\ \A other \in Keys \ {last'.key} :
                key_filter'._key_timers[other] = key_filter._key_timers[other]]_vars

\* the timer of a held key has just timed out at the repeat interval: the
\* second action or a later one of a long press
C31_Witness ==
    /\ last.ev = "timeout"
    /\ last.interval = LONG_PRESS_INTERVAL_MS
    /\ last.action = "actionTriggered"
    /\ key_filter._key_timers[last.key].active

\* C32: a lock is set exactly while one unlock callback is pending for it, and
\* never more than one is; a lock that is set is cleared by the firing of its
\* own callback alone, and every lock that is set is cleared in the end.
C32_LocksClearedByOwnCallback ==
    /\ [](/\ hover_timers \in {0, 1}
          /\ click_timers \in {0, 1}
          /\ mouse_hover_lock <=> hover_timers = 1
          /\ mouse_double_click_lock <=> click_timers = 1)
    /\ [][/\ (mouse_hover_lock /\ ~mouse_hover_lock') => HoverTimer
          /\ (mouse_double_click_lock /\ ~mouse_double_click_lock') => ClickTimer
          /\ hover_timers' > hover_timers => ~mouse_hover_lock
          /\ click_timers' > click_timers => ~mouse_double_click_lock]_vars
    /\ (mouse_hover_lock ~> ~mouse_hover_lock)
    /\ (mouse_double_click_lock ~> ~mouse_double_click_lock)

\* the callback of the hover lock has just cleared it while the double-click
\* lock is still set with its own callback pending
C32_Witness ==
    /\ last.ev = "hover_timer"
    /\ ~mouse_hover_lock
    /\ hover_timers = 0
    /\ mouse_double_click_lock
    /\ click_timers = 1

\* C33: the mark in focus is None or one of the marks the collection holds:
\* in_focus_mark_spot is 0 or the place of a mark of mark_spots.
C33_FocusIsMember ==
    mark_spots.in_focus_mark_spot \in 0..Len(mark_spots.mark_spots)

\* a discard has just taken the mark in focus, the last of two, out of the
\* collection: one mark is left and none is in focus
C33_Witness ==
    /\ last = Event("call", TRUE, "discard_mark_spot")
    /\ Len(mark_spots.mark_spots) = 1
    /\ mark_spots.items = 1
    /\ mark_spots.in_focus_mark_spot = 0

\* C34: no two marks of the collection are bound to equal DataPoints.
C34_MarksOnDistinctDataPoints ==
    \A i, j \in 1..Len(mark_spots.mark_spots) :
       i # j => mark_spots.mark_spots[i].data_point # mark_spots.mark_spots[j].data_point

\* the index of a DataPoint lies within the rows of the item it names, and its
\* length is the number of those rows: those of the series as the user
\* plotted it, one for a marker item
InRange(data_point) ==
    /\ data_point.data_index \in 0..(data_point.length - 1)
    /\ data_point.length =
          IF data_point.plot_data_item.kind = "series"
            THEN Len(UserData[data_point.plot_data_item.id]) ELSE 1

\* C35: the DataPoint of every mark of the collection, and the DataPoint the
\* hint holds when it holds one, has its index in [0, length - 1] of its
\* series, after any sequence of pointer-move, click, key and drag events.
C35_IndexWithinSeries ==
    /\ \A i \in 1..Len(mark_spots.mark_spots) : InRange(mark_spots.mark_spots[i].data_point)
    /\ hint_spot.data_point # NoDataPoint => InRange(hint_spot.data_point)

\* an arrow key has just left the mark in focus on the last sample of the
\* first series while the hint holds the first sample and a second mark is on
\* the other series
C35_Witness ==
    /\ last = Event("key", TRUE, "move_mark_spot_right")
    /\ Len(mark_spots.mark_spots) = 2
    /\ mark_spots.in_focus_mark_spot # 0
    /\ FocusPoint(mark_spots) = DataPoint(Series(1), 2, 3)
    /\ hint_spot.data_point = DataPoint(Series(1), 0, 3)
    /\ \E i \in 1..2 : mark_spots.mark_spots[i].data_point = DataPoint(Series(2), 0, 1)

\* the places of the drawing surface that hold an item of the kind given
PlacesOf(items, kind) == {k \in 1..Len(items) : items[k].kind = kind}

\* hc holds markers exactly when it holds a series
HoldsMarkersIffSeries(hc) == (hc.scatter_items # << >>) <=> (hc.plot_data_item # NoItem)

\* C36: HintSpot holds a marker exactly when it holds a DataPoint, and the
\* surface holds that marker once and no other hint-spot marker; each
\* HintCurve holds markers exactly when it holds a series, and the curve
\* markers on the surface are those the two HintCurves hold, each once: none
\* is left from a hint that was cleared or replaced.
C36_HintVisualsMatchHints ==
    /\ (hint_spot.scatter_item # 0) <=> (hint_spot.data_point # NoDataPoint)
    /\ Cardinality(PlacesOf(dataItems, "scatter")) <= 1
    /\ Markers(dataItems) =
          IF hint_spot.scatter_item # 0 THEN {Scatter(hint_spot.scatter_item)} ELSE {}
    /\ HoldsMarkersIffSeries(hint_curve)
    /\ HoldsMarkersIffSeries(mark_curves_hint_curve)
    /\ CurveMarkers(dataItems) =
          {hint_curve.scatter_items[k] : k \in 1..Len(hint_curve.scatter_items)}
          \cup {mark_curves_hint_curve.scatter_items[k] :
                   k \in 1..Len(mark_curves_hint_curve.scatter_items)}
    /\ Cardinality(PlacesOf(dataItems, "marker")) =
          Len(hint_curve.scatter_items) + Len(mark_curves_hint_curve.scatter_items)

\* a HintCurve has just been cleared while the HintSpot and the other
\* HintCurve hold their hints: the markers of the cleared one are gone and
\* the others are on the surface
C36_Witness ==
    /\ last = Event("call", TRUE, "HintCurve.clear")
    /\ hint_curve = NoHintCurve
    /\ hint_spot.data_point \in UserDataPoints
    /\ mark_curves_hint_curve.plot_data_item \in UserSeries
    /\ Len(dataItems) = Len(UserData) + 1 + HintCurveMarkers

\* C37: the mark visuals on the drawing surface are the marks the collections
\* hold: MarkSpots has as many MarkSpot objects on the surface as its list
\* holds, and MarkCurves as many MarkCurve objects as its dict has keys; every
\* method adds one visual with each mark it puts into its collection and
\* removes one with each mark it takes out.
C37_MarkVisualsAreTheMarks ==
    /\ [](/\ mark_spots.items = Len(mark_spots.mark_spots)
          /\ mark_curve_items = Cardinality(mark_curves))
    /\ [][/\ mark_spots'.items - mark_spots.items
                = Len(mark_spots'.mark_spots) - Len(mark_spots.mark_spots)
          /\ mark_curve_items' - mark_curve_items
                = Cardinality(mark_curves' \ mark_curves)
                  - Cardinality(mark_curves \ mark_curves')]_vars

\* clear_mark_curve has just taken the last MarkCurve objects off the surface
\* while MarkSpots holds two marks
C37_Witness ==
    /\ last = Event("call", TRUE, "clear_mark_curve")
    /\ mark_curves = {}
    /\ mark_curve_items = 0
    /\ Len(mark_spots.mark_spots) = 2
    /\ mark_spots.items = 2

\* C38: a processed pointer-move flagged as exit leaves the hints, the marks
\* and the surface as they were and raises nothing, and it sets the hover
\* lock with one callback pending; a pointer-move that is not an exit and
\* comes next, before the callback fires, is suppressed and changes nothing.
C38_ExitStartsCoolDown ==
    [][/\ (~mouse_hover_lock /\ hoverEvent(<< 0, 0 >>, TRUE, FALSE))
             => /\ last' = Event("hover", TRUE, "exit")
                /\ UNCHANGED coreVars
                /\ raised' = "none"
                /\ mouse_hover_lock'
                /\ hover_timers' = 1
       /\ (last = Event("hover", TRUE, "exit") /\ AnyHover)
             => /\ last' = Event("hover", FALSE, "None")
                /\ UNCHANGED coreVars
                /\ mouse_hover_lock'
                /\ hover_timers' = 1]_vars

\* an exit has just been processed in pan mode while the hint holds a
\* DataPoint: the hint is kept and the cool-down runs
C38_Witness ==
    /\ last = Event("hover", TRUE, "exit")
    /\ mouse_mode = "pan"
    /\ hint_spot.data_point # NoDataPoint
    /\ mouse_hover_lock
    /\ hover_timers = 1

\* C39: a processed double click whose (mode, button, modifiers) has no entry
\* in the click table runs no action and changes nothing of the mode, the
\* hints and the marks, yet it sets the double-click lock with one callback
\* pending; a click that comes next, before the callback fires, is dropped.
C39_UnmatchedDoubleClickLocks ==
    [][/\ \A button \in Buttons, mods \in Modifiers :
             (/\ ~mouse_double_click_lock
              /\ click_actions(mouse_mode, button, TRUE, mods) = "None"
              /\ mouseClickEvent(button, TRUE, mods, "dismiss"))
                => /\ last' = Event("click", TRUE, "None")
                   /\ NoOp
                   /\ mouse_double_click_lock'
                   /\ click_timers' = 1
       /\ (last = Event("click", TRUE, "None") /\ mouse_double_click_lock /\ AnyClick)
             => /\ last' = Event("click", FALSE, "None")
                /\ NoOp
                /\ mouse_double_click_lock'
                /\ click_timers' = 1]_vars

\* a double click without an entry (select mode has one for the left button
\* without modifiers alone) has just been processed with a mark and a hint in
\* place, and has set the lock
C39_Witness ==
    /\ last = Event("click", TRUE, "None")
    /\ mouse_double_click_lock
    /\ click_timers = 1
    /\ mouse_mode = "select"
    /\ mark_spots.mark_spots # << >>
    /\ hint_spot.data_point # NoDataPoint

\* the items a query may return under the claim: a series the user plotted,
\* or None
UserItems == UserSeries \cup {NoItem}

\* C40: the nearest-point query and both nearest-curve queries return a
\* series the user plotted or None at every pointer position, and so the
\* hint and every mark are bound to a series of the user, never to a marker
\* item the core put on the drawing surface.
C40_QueriesReturnUserSeries ==
    /\ \A pos \in NearPositions :
          /\ \A data_point \in _find_nearest_data_point(pos, NoItem, HoverThreshold) :
                data_point.plot_data_item \in UserItems
          /\ _find_nearest_curve(pos, HoverThreshold) \in UserItems
          /\ find_nearest_curve(pos, HoverThreshold) \in UserItems
    /\ hint_spot.data_point.plot_data_item \in UserItems
    /\ \A i \in 1..Len(mark_spots.mark_spots) :
          mark_spots.mark_spots[i].data_point.plot_data_item \in UserItems

====
